---- MODULE Spec2Model ----
(***************************************************************************)
(* pyMor grids: the structured rectangular grid (RectGrid), the reference  *)
(* elements (Point, Line, Square) and the topological relations derived    *)
(* from the codim-0 subentity tables.                                      *)
(*                                                                         *)
(* Arrays keep the 0-based indices of the source: an array of length n is  *)
(* a function with domain 0..n-1, a 2-D array a function of such rows.     *)
(***************************************************************************)
EXTENDS Integers, Sequences, FiniteSets, TLC

VARIABLES x0_num_intervals, x1_num_intervals, domain, sizes, subentities_tables,
          embeddings_tables, constructed, cache, ncomputed, result, ncalls,
          call_limit, readers, observed, arithmetic, sampler

vars == <<x0_num_intervals, x1_num_intervals, domain, sizes, subentities_tables,
          embeddings_tables, constructed, cache, ncomputed, result, ncalls,
          call_limit, readers, observed, arithmetic, sampler>>

\* the fields RectGrid.__init__ sets, the grids constructed so far, and the
\* arithmetic the floats of the run are computed in; beside them, untouched by
\* every call on a grid, the iterator of CubicParameterSpace.sample_randomly
grid_vars == <<x0_num_intervals, x1_num_intervals, domain, sizes, subentities_tables,
               embeddings_tables, constructed, arithmetic, sampler>>

\* the callers of the grid: how many calls they make in all, the concurrent
\* readers, and what the calls through the cache have handed out
reader_vars == <<call_limit, readers, observed>>

(***************************************************************************)
(* Bounds of the model.                                                    *)
(***************************************************************************)
\* num_intervals = (n0, n1) with n0, n1 in 1..MaxN
MaxN == 3
\* number of accessor calls made on one grid / on the reference elements
MaxCalls == 1
\* domain = [[a, b], [a + W, b + H]] with W, H in 1..MaxWidth
MaxWidth == 2
\* num_intervals = (n0, n1) with n0, n1 in 1..MaxIntervals where the floats
\* are computed in binary64
MaxIntervals == 5
\* number of calls that go through the cache of one grid
MaxCacheCalls == 2
\* number of concurrent readers of one grid
MaxReaders == 2
\* sample_randomly(count) with count in 0..MaxCount, or None
MaxCount == 2

(***************************************************************************)
(* Program constants.                                                      *)
(***************************************************************************)
\* RectGrid.dim
dim == 2
\* Python's None, as passed for an omitted codimension argument
None == 99
\* padding entry of the ragged superentity tables
Sentinel == -1

\* the codimension arguments the callers try: one below and one above [0, dim]
Codims == (0 - 1) .. (dim + 1)
CodimsOrNone == Codims \cup {None}

(***************************************************************************)
(* Outcomes of a call: a returned value or a raised exception.             *)
(***************************************************************************)
NoVal == <<>>
Ok(v) == [kind |-> "ok", val |-> v]
Raise(exc) == [kind |-> exc, val |-> NoVal]

\* `assert cond, CodimError(...)`: a failing assert statement raises
\* AssertionError, the CodimError instance is only its argument
assert_CodimError == Raise("AssertionError")

\* np.array(<<a, b, ...>>), np.arange(n)
array(s) == [i \in 0 .. Len(s) - 1 |-> s[i + 1]]
arange(n) == [i \in 0 .. n - 1 |-> i]
\* a[:, np.newaxis] of a 1-D array: one column
newaxis(a) == [i \in DOMAIN a |-> [s \in 0 .. 0 |-> a[i]]]
\* numpy arrays hold their entries: the function is evaluated once, when built
ndarray(f) == f @@ <<>>

(***************************************************************************)
(* Natural numbers of any size: the sequence of their digits to the base   *)
(* 2^15, lowest digit first, without leading zero digits; <<>> is 0.       *)
(***************************************************************************)
Base == 2 ^ 15

RECURSIVE BigTrim(_)
BigTrim(a) ==
    IF a = <<>> \/ a[Len(a)] # 0 THEN a ELSE BigTrim(SubSeq(a, 1, Len(a) - 1))

RECURSIVE BigFromNat(_)
BigFromNat(n) == IF n = 0 THEN <<>> ELSE <<n % Base>> \o BigFromNat(n \div Base)

BigDigit(a, i) == IF i <= Len(a) THEN a[i] ELSE 0

\* -1, 0, 1 as a < b, a = b, a > b, looking from digit i down
RECURSIVE BigCmpFrom(_, _, _)
BigCmpFrom(a, b, i) ==
    IF i = 0 THEN 0
    ELSE IF a[i] < b[i] THEN -1
    ELSE IF a[i] > b[i] THEN 1
    ELSE BigCmpFrom(a, b, i - 1)

BigCmp(a, b) ==
    IF Len(a) < Len(b) THEN -1
    ELSE IF Len(a) > Len(b) THEN 1
    ELSE BigCmpFrom(a, b, Len(a))

RECURSIVE BigAddFrom(_, _, _, _)
BigAddFrom(a, b, i, carry) ==
    IF i > Len(a) /\ i > Len(b)
    THEN IF carry = 0 THEN <<>> ELSE <<carry>>
    ELSE <<(BigDigit(a, i) + BigDigit(b, i) + carry) % Base>>
             \o BigAddFrom(a, b, i + 1, (BigDigit(a, i) + BigDigit(b, i) + carry) \div Base)

BigAdd(a, b) == BigAddFrom(a, b, 1, 0)

\* a - b for a >= b
RECURSIVE BigSubFrom(_, _, _, _)
BigSubFrom(a, b, i, borrow) ==
    IF i > Len(a) THEN <<>>
    ELSE <<(a[i] - BigDigit(b, i) - borrow + Base) % Base>>
             \o BigSubFrom(a, b, i + 1, IF a[i] - BigDigit(b, i) - borrow < 0 THEN 1 ELSE 0)

BigSub(a, b) == BigTrim(BigSubFrom(a, b, 1, 0))

\* a * d for a digit d
RECURSIVE BigMulDigitFrom(_, _, _, _)
BigMulDigitFrom(a, d, i, carry) ==
    IF i > Len(a)
    THEN IF carry = 0 THEN <<>> ELSE <<carry>>
    ELSE <<(a[i] * d + carry) % Base>>
             \o BigMulDigitFrom(a, d, i + 1, (a[i] * d + carry) \div Base)

BigMulDigit(a, d) == IF d = 0 THEN <<>> ELSE BigMulDigitFrom(a, d, 1, 0)
\* a * d + c for two digits d > 0 and c
BigScale(a, d, c) == BigMulDigitFrom(a, d, 1, c)

BigZeros(n) == [i \in 1 .. n |-> 0]

\* a * Base^n
BigShiftDigits(a, n) == IF a = <<>> THEN <<>> ELSE BigZeros(n) \o a

RECURSIVE BigMulFrom(_, _, _)
BigMulFrom(a, b, i) ==
    IF i > Len(b) THEN <<>>
    ELSE BigAdd(BigShiftDigits(BigMulDigit(a, b[i]), i - 1), BigMulFrom(a, b, i + 1))

BigMul(a, b) == BigMulFrom(a, b, 1)

\* a * 2^k
BigShl(a, k) == BigShiftDigits(BigMulDigit(a, 2 ^ (k % 15)), k \div 15)

\* a \div 2^r for r < 15
BigShrBits(a, r) ==
    BigTrim([i \in 1 .. Len(a) |->
                (a[i] \div (2 ^ r)) + (BigDigit(a, i + 1) % (2 ^ r)) * (2 ^ (15 - r))])

\* a \div 2^k
BigShr(a, k) ==
    IF k \div 15 >= Len(a) THEN <<>>
    ELSE BigShrBits(SubSeq(a, k \div 15 + 1, Len(a)), k % 15)

\* the number of binary digits of a
BigBitLen(a) ==
    IF a = <<>> THEN 0
    ELSE 15 * (Len(a) - 1)
             + (CHOOSE k \in 1 .. 15 : 2 ^ (k - 1) <= a[Len(a)] /\ a[Len(a)] < 2 ^ k)

BigOdd(a) == a # <<>> /\ a[1] % 2 = 1
BigOne == <<1>>

\* <<q, r>> with n * 2^k = q * d + r and r < d, given qr = <<q0, r0>> with
\* n = q0 * d + r0 and r0 < d: k steps of binary long division
RECURSIVE BigDivBits(_, _, _)
BigDivBits(qr, d, k) ==
    IF k = 0 THEN qr
    ELSE IF BigCmp(BigScale(qr[2], 2, 0), d) >= 0
    THEN BigDivBits(<<BigScale(qr[1], 2, 1), BigSub(BigScale(qr[2], 2, 0), d)>>, d, k - 1)
    ELSE BigDivBits(<<BigScale(qr[1], 2, 0), BigScale(qr[2], 2, 0)>>, d, k - 1)

\* the two binary digits of a at positions pos + 1 and pos, as a number
BigBits2(a, pos) ==
    IF pos % 15 < 14
    THEN (BigDigit(a, pos \div 15 + 1) \div (2 ^ (pos % 15))) % 4
    ELSE (BigDigit(a, pos \div 15 + 1) \div (2 ^ 14)) + 2 * (BigDigit(a, pos \div 15 + 2) % 2)

\* <<c, r>> with c the integer square root of n = a * 4^z and r = n - c * c,
\* digit by digit: root and rem are those of the digits of a above the pair j,
\* then come z pairs of zeros. The root gets the digit 1 where the remainder
\* holds the trial subtrahend 4 * root + 1.
RECURSIVE BigSqrtBits(_, _, _, _, _)
RECURSIVE BigSqrtTry(_, _, _, _, _, _)
BigSqrtTry(root, rem, trial, a, j, z) ==
    IF BigCmp(rem, trial) >= 0
    THEN BigSqrtBits(BigScale(root, 2, 1), BigSub(rem, trial), a, j, z)
    ELSE BigSqrtBits(BigScale(root, 2, 0), rem, a, j, z)

BigSqrtBits(root, rem, a, j, z) ==
    IF j >= 0
    THEN BigSqrtTry(root, BigScale(rem, 4, BigBits2(a, 2 * j)), BigScale(root, 4, 1),
                    a, j - 1, z)
    ELSE IF z = 0 \/ rem = <<>> THEN <<BigShl(root, z), rem>>
    ELSE BigSqrtTry(root, BigScale(rem, 4, 0), BigScale(root, 4, 1), a, j, z - 1)

BigSqrt(a, z) == BigSqrtBits(<<>>, <<>>, a, (BigBitLen(a) - 1) \div 2, z)

(***************************************************************************)
(* IEEE-754 binary64 values: <<s, m, e>> stands for s * m * 2^e with the   *)
(* sign s = 1 or -1 and 2^52 <= m < 2^53; <<0, <<>>, 0>> is zero. Every    *)
(* operation rounds its exact result to the nearest such value, ties to    *)
(* the even m. Exponents stay far from the ends of the range, so there are *)
(* no subnormal numbers, infinities or NaNs here.                          *)
(***************************************************************************)
\* the 52 stored bits of the significand and its implicit leading bit
Precision == 52 + 1
f64_zero == <<0, <<>>, 0>>

\* m has one digit too many after rounding up to 2^53
f64_normal(s, m, e) ==
    IF BigBitLen(m) > Precision THEN <<s, BigShr(m, 1), e + 1>> ELSE <<s, m, e>>

\* q * 2^e with the cut-off part `low` of k bits (and `sticky`: something
\* nonzero below it) rounded to nearest, ties to even
f64_round_up(s, q, e, low, k, sticky) ==
    IF \/ BigCmp(low, BigShl(BigOne, k - 1)) > 0
       \/ (BigCmp(low, BigShl(BigOne, k - 1)) = 0 /\ (sticky \/ BigOdd(q)))
    THEN f64_normal(s, BigAdd(q, BigOne), e)
    ELSE <<s, q, e>>

\* the binary64 value nearest to s * (M + a fraction, nonzero iff sticky) * 2^E
f64_round(s, M, E, sticky) ==
    IF M = <<>> THEN f64_zero
    ELSE IF BigBitLen(M) <= Precision
    THEN <<s, BigShl(M, Precision - BigBitLen(M)), E - (Precision - BigBitLen(M))>>
    ELSE f64_round_up(s, BigShr(M, BigBitLen(M) - Precision), E + BigBitLen(M) - Precision,
                      BigSub(M, BigShl(BigShr(M, BigBitLen(M) - Precision),
                                       BigBitLen(M) - Precision)),
                      BigBitLen(M) - Precision, sticky)

f64_from_int(n) ==
    IF n = 0 THEN f64_zero
    ELSE f64_round(IF n < 0 THEN -1 ELSE 1, BigFromNat(IF n < 0 THEN 0 - n ELSE n), 0, FALSE)

f64_neg(x) == <<0 - x[1], x[2], x[3]>>

f64_mul(x, y) ==
    IF x[1] = 0 \/ y[1] = 0 THEN f64_zero
    ELSE f64_round(x[1] * y[1], BigMul(x[2], y[2]), x[3] + y[3], FALSE)

\* the sum of s * X * 2^e and t * Y * 2^e
f64_add_aligned(s, X, t, Y, e) ==
    IF s = t THEN f64_round(s, BigAdd(X, Y), e, FALSE)
    ELSE IF BigCmp(X, Y) >= 0 THEN f64_round(s, BigSub(X, Y), e, FALSE)
    ELSE f64_round(t, BigSub(Y, X), e, FALSE)

f64_add(x, y) ==
    IF x[1] = 0 THEN y
    ELSE IF y[1] = 0 THEN x
    ELSE IF x[3] <= y[3]
    THEN f64_add_aligned(x[1], x[2], y[1], BigShl(y[2], y[3] - x[3]), x[3])
    ELSE f64_add_aligned(x[1], BigShl(x[2], x[3] - y[3]), y[1], y[2], y[3])

f64_sub(x, y) == f64_add(x, f64_neg(y))

\* quotient bits computed before rounding: the precision and guard bits
QuotientBits == Precision + 3

f64_quotient(s, qr, e) == f64_round(s, qr[1], e, qr[2] # <<>>)

\* x / y for y # 0
f64_div(x, y) ==
    IF x[1] = 0 THEN f64_zero
    ELSE f64_quotient(x[1] * y[1],
                      IF BigCmp(x[2], y[2]) >= 0
                      THEN BigDivBits(<<BigOne, BigSub(x[2], y[2])>>, y[2], QuotientBits)
                      ELSE BigDivBits(<<<<>>, x[2]>>, y[2], QuotientBits),
                      x[3] - y[3] - QuotientBits)

\* root digits computed below the digits of the significand
RootPairs == QuotientBits \div 2

\* the significand of x times 2 or 4, whichever leaves an even exponent
f64_root_shift(x) == IF (x[3] - 1) % 2 = 0 THEN 1 ELSE 2

f64_root(cr, e) == f64_round(1, cr[1], e, cr[2] # <<>>)

\* sqrt(x) for x >= 0
f64_sqrt(x) ==
    IF x[1] = 0 THEN f64_zero
    ELSE f64_root(BigSqrt(BigShl(x[2], f64_root_shift(x)), RootPairs),
                  (x[3] - f64_root_shift(x)) \div 2 - RootPairs)

(***************************************************************************)
(* Floating-point values. `arithmetic` says how a run computes them:       *)
(*   "exact"    as the exact fractions <<numerator, denominator>> they     *)
(*              stand for, in lowest terms with a positive denominator     *)
(*              (the idealised arithmetic, without rounding);              *)
(*   "binary64" as the IEEE-754 double precision values numpy computes.    *)
(* `/` is true division (from __future__ import division).                 *)
(***************************************************************************)
Abs(x) == IF x < 0 THEN 0 - x ELSE x

RECURSIVE GCD(_, _)
GCD(a, b) == IF b = 0 THEN a ELSE GCD(b, a % b)

Reduced(n, d, g) ==
    IF d < 0 THEN <<(0 - n) \div g, (0 - d) \div g>> ELSE <<n \div g, d \div g>>

\* n / d
Rat(n, d) == Reduced(n, d, GCD(Abs(n), Abs(d)))
RatAdd(p, q) == Rat(p[1] * q[2] + q[1] * p[2], p[2] * q[2])
RatMul(p, q) == Rat(p[1] * q[1], p[2] * q[2])
RatDiv(p, q) == Rat(p[1] * q[2], p[2] * q[1])
RatNeg(p) == <<0 - p[1], p[2]>>
RatSub(p, q) == RatAdd(p, RatNeg(q))
\* the square root of a natural number that is a square
isqrt(n) == CHOOSE k \in 0 .. n : k * k = n
\* the square root of a fraction of two squares
RatSqrt(p) == <<isqrt(p[1]), isqrt(p[2])>>

\* float(k) of an integer k, and + - * / sqrt on floats
float(k) == IF arithmetic = "binary64" THEN f64_from_int(k) ELSE <<k, 1>>
fadd(p, q) == IF arithmetic = "binary64" THEN f64_add(p, q) ELSE RatAdd(p, q)
fsub(p, q) == IF arithmetic = "binary64" THEN f64_sub(p, q) ELSE RatSub(p, q)
fmul(p, q) == IF arithmetic = "binary64" THEN f64_mul(p, q) ELSE RatMul(p, q)
fdiv(p, q) == IF arithmetic = "binary64" THEN f64_div(p, q) ELSE RatDiv(p, q)
fneg(p) == IF arithmetic = "binary64" THEN f64_neg(p) ELSE RatNeg(p)
fsqrt(p) == IF arithmetic = "binary64" THEN f64_sqrt(p) ELSE RatSqrt(p)

\* an integer vector / matrix as an array of floats
floats1(v) == ndarray([k \in DOMAIN v |-> float(v[k])])
floats2(M) == ndarray([i \in DOMAIN M |-> floats1(M[i])])

\* u[0] * v[0] + ... + u[n - 1] * v[n - 1]
RECURSIVE dot_terms(_, _, _)
dot_terms(u, v, n) ==
    IF n = 0 THEN float(0)
    ELSE fadd(dot_terms(u, v, n - 1), fmul(u[n - 1], v[n - 1]))

column(N, j) == [k \in DOMAIN N |-> N[k][j]]
\* np.dot(M, N) of two matrices, np.dot(M, v) of a matrix and a vector
matmul(M, N) ==
    ndarray([i \in DOMAIN M |-> ndarray([j \in DOMAIN N[0] |->
                dot_terms(M[i], column(N, j), Cardinality(DOMAIN N))])])
matvec(M, v) ==
    ndarray([i \in DOMAIN M |-> dot_terms(M[i], v, Cardinality(DOMAIN v))])
vecadd(u, v) == ndarray([i \in DOMAIN u |-> fadd(u[i], v[i])])
vecsub(u, v) == ndarray([i \in DOMAIN u |-> fsub(u[i], v[i])])
\* M.T of a matrix with rows 0 .. m - 1 and columns 0 .. k - 1
transposed(M, k) == ndarray([j \in 0 .. k - 1 |-> column(M, j)])
\* the determinant of a k x k matrix, k <= 2 (the empty matrix has 1)
det(M, k) ==
    IF k = 0 THEN float(1)
    ELSE IF k = 1 THEN M[0][0]
    ELSE fsub(fmul(M[0][0], M[1][1]), fmul(M[0][1], M[1][0]))
\* the inverse of a k x k matrix, 1 <= k <= 2
inverse(M, k) ==
    IF k = 1 THEN array(<<array(<<fdiv(float(1), M[0][0])>>)>>)
    ELSE array(<<array(<<fdiv(M[1][1], det(M, 2)), fdiv(fneg(M[0][1]), det(M, 2))>>),
                 array(<<fdiv(fneg(M[1][0]), det(M, 2)), fdiv(M[0][0], det(M, 2))>>)>>)
\* the Euclidean norm of a vector and the vector scaled to norm 1
norm(v) == fsqrt(dot_terms(v, v, Cardinality(DOMAIN v)))
normalized(v) == ndarray([i \in DOMAIN v |-> fdiv(v[i], norm(v))])

(***************************************************************************)
(* Reference elements (pymor/grid/referenceelements.py).                   *)
(***************************************************************************)
Point_size(codim) ==
    IF codim = 0 THEN Ok(1) ELSE assert_CodimError

Point_subentities(codim, subentity_codim) ==
    IF codim # 0 THEN assert_CodimError
    ELSE IF subentity_codim # 0 THEN assert_CodimError
    ELSE Ok(array(<<0>>))

\* the message of the failing assert formats the name `codim`, which is not
\* defined in this method: evaluating the message raises NameError
Point_subentity_embedding(subentity_codim) ==
    IF subentity_codim = 0 THEN Ok(<<array(<<>>), array(<<>>)>>)
    ELSE Raise("NameError")

Point_sub_reference_element(codim) ==
    IF codim = 0 THEN Ok("point") ELSE assert_CodimError

Line_size(codim) ==
    IF ~(0 <= codim /\ codim <= 1) THEN assert_CodimError
    ELSE IF codim = 0 THEN Ok(1) ELSE Ok(2)

Line_subentities(codim, subentity_codim) ==
    IF ~(0 <= codim /\ codim <= 1) THEN assert_CodimError
    ELSE IF ~(codim <= subentity_codim /\ subentity_codim <= 1) THEN assert_CodimError
    ELSE IF codim = 0 THEN Ok(arange(Line_size(subentity_codim).val))
    ELSE Ok(array(<<array(<<0>>), array(<<1>>)>>))

Line_subentity_embedding(subentity_codim) ==
    IF ~(0 <= subentity_codim /\ subentity_codim <= 1) THEN assert_CodimError
    ELSE IF subentity_codim = 0 THEN Ok(<<array(<<1>>), array(<<0>>)>>)
    ELSE Ok(<<array(<<array(<<array(<<>>)>>), array(<<array(<<>>)>>)>>),
              array(<<array(<<0>>), array(<<1>>)>>)>>)

Line_sub_reference_element(codim) ==
    IF ~(0 <= codim /\ codim <= 1) THEN assert_CodimError
    ELSE IF codim = 0 THEN Ok("line") ELSE Ok("point")

Square_size(codim) ==
    IF ~(0 <= codim /\ codim <= 2) THEN assert_CodimError
    ELSE IF codim = 0 THEN Ok(1)
    ELSE IF codim = 1 THEN Ok(4)
    ELSE Ok(4)

\* square.subentities(1, 2): the two local vertices of each local edge
Square_edge_vertices == array(<<array(<<0, 1>>), array(<<1, 2>>), array(<<2, 3>>), array(<<3, 0>>)>>)

Square_subentities(codim, subentity_codim) ==
    IF ~(0 <= codim /\ codim <= 2) THEN assert_CodimError
    ELSE IF ~(codim <= subentity_codim /\ subentity_codim <= 2) THEN assert_CodimError
    ELSE IF codim = 0 THEN Ok(arange(Square_size(subentity_codim).val))
    ELSE IF codim = 1 THEN
        IF subentity_codim = 1
        THEN Ok(array(<<array(<<0>>), array(<<1>>), array(<<2>>), array(<<3>>)>>))
        ELSE Ok(Square_edge_vertices)
    ELSE Ok(array(<<array(<<0>>), array(<<1>>), array(<<2>>), array(<<3>>)>>))

\* ReferenceElementInterface.subentity_embedding for subentity_codim > 1:
\* the embedding through the codim-1 superentity of smallest index. For the
\* square's vertices: an empty linear part and the vertex positions, vertex k
\* being the image of the reference line's point 0 under edge k's embedding.
default_subentity_embedding_square ==
    <<array(<<array(<<array(<<>>), array(<<>>)>>), array(<<array(<<>>), array(<<>>)>>),
              array(<<array(<<>>), array(<<>>)>>), array(<<array(<<>>), array(<<>>)>>)>>),
      array(<<array(<<0, 0>>), array(<<1, 0>>), array(<<1, 1>>), array(<<0, 1>>)>>)>>

Square_subentity_embedding(subentity_codim) ==
    IF ~(0 <= subentity_codim /\ subentity_codim <= 2) THEN assert_CodimError
    ELSE IF subentity_codim = 0
    THEN Ok(<<array(<<array(<<1, 0>>), array(<<0, 1>>)>>), array(<<0, 0>>)>>)
    ELSE IF subentity_codim = 1
    THEN Ok(<<array(<<array(<<array(<<1>>), array(<<0>>)>>), array(<<array(<<0>>), array(<<1>>)>>),
                      array(<<array(<<-1>>), array(<<0>>)>>), array(<<array(<<0>>), array(<<-1>>)>>)>>),
              array(<<array(<<0, 0>>), array(<<1, 0>>), array(<<1, 1>>), array(<<0, 1>>)>>)>>)
    ELSE Ok(default_subentity_embedding_square)

Square_sub_reference_element(codim) ==
    IF ~(0 <= codim /\ codim <= 2) THEN assert_CodimError
    ELSE IF codim = 0 THEN Ok("square")
    ELSE IF codim = 1 THEN Ok("line")
    ELSE Ok("point")

ReferenceElements == {"point", "line", "square"}
\* the class attribute `dim` of each reference element
ref_dim(el) == IF el = "point" THEN 0 ELSE IF el = "line" THEN 1 ELSE 2

ref_size(el, codim) ==
    IF el = "point" THEN Point_size(codim)
    ELSE IF el = "line" THEN Line_size(codim)
    ELSE Square_size(codim)

ref_subentities(el, codim, subentity_codim) ==
    IF el = "point" THEN Point_subentities(codim, subentity_codim)
    ELSE IF el = "line" THEN Line_subentities(codim, subentity_codim)
    ELSE Square_subentities(codim, subentity_codim)

ref_subentity_embedding(el, subentity_codim) ==
    IF el = "point" THEN Point_subentity_embedding(subentity_codim)
    ELSE IF el = "line" THEN Line_subentity_embedding(subentity_codim)
    ELSE Square_subentity_embedding(subentity_codim)

ref_sub_reference_element(el, codim) ==
    IF el = "point" THEN Point_sub_reference_element(codim)
    ELSE IF el = "line" THEN Line_sub_reference_element(codim)
    ELSE Square_sub_reference_element(codim)

(***************************************************************************)
(* RectGrid.__init__ (pymor/grids/rect.py): the primitive tables.          *)
(***************************************************************************)
n_elements(n0, n1) == n0 * n1

\* faulty variant: the edge count with the horizontal edges counted per row of cells
init_sizes_edges_per_row(n0, n1) ==
    array(<<n_elements(n0, n1),
            (n0 + 1) * n1 + n1 * n0,
            (n0 + 1) * (n1 + 1)>>)

\* faulty variant: the vertex count one short
init_sizes_vertices_short(n0, n1) ==
    array(<<n_elements(n0, n1),
            (n0 + 1) * n1 + (n1 + 1) * n0,
            (n0 + 1) * (n1 + 1) - 1>>)

init_sizes(n0, n1) ==
    array(<<n_elements(n0, n1),
            (n0 + 1) * n1 + (n1 + 1) * n0,
            (n0 + 1) * (n1 + 1)>>)

\* (arange(n1) * (n0 + 1))[:, newaxis] + arange(n0), ravelled row by row:
\* entry e = j * n0 + i holds j * (n0 + 1) + i
EVL(n0, n1) == [e \in 0 .. n_elements(n0, n1) - 1 |-> (e \div n0) * (n0 + 1) + (e % n0)]
\* faulty variant: the right edge found with the stride n0 of the cells
EVR_cell_stride(n0, n1) == [e \in 0 .. n_elements(n0, n1) - 1 |-> EVL(n0, n1)[e] + n0]

EVR(n0, n1) == [e \in 0 .. n_elements(n0, n1) - 1 |-> EVL(n0, n1)[e] + 1]
EHB(n0, n1) == [e \in 0 .. n_elements(n0, n1) - 1 |-> e + (n0 + 1) * n1]
\* faulty variant: the top edge one row of vertices, not of cells, further
EHT_vertex_stride(n0, n1) ==
    [e \in 0 .. n_elements(n0, n1) - 1 |-> EHB(n0, n1)[e] + n0 + 1]

EHT(n0, n1) == [e \in 0 .. n_elements(n0, n1) - 1 |-> EHB(n0, n1)[e] + n0]

\* faulty variant: left and right edge in each other's column
codim0_subentities_left_right(n0, n1) ==
    [e \in 0 .. n_elements(n0, n1) - 1 |->
        array(<<EHB(n0, n1)[e], EVL(n0, n1)[e], EHT(n0, n1)[e], EVR(n0, n1)[e]>>)]

\* faulty variant: bottom and top edge in each other's column
codim0_subentities_bottom_top(n0, n1) ==
    [e \in 0 .. n_elements(n0, n1) - 1 |->
        array(<<EHT(n0, n1)[e], EVR(n0, n1)[e], EHB(n0, n1)[e], EVL(n0, n1)[e]>>)]

\* np.array((EHB, EVR, EHT, EVL)).T : the four edges of each cell
codim0_subentities(n0, n1) ==
    [e \in 0 .. n_elements(n0, n1) - 1 |->
        array(<<EHB(n0, n1)[e], EVR(n0, n1)[e], EHT(n0, n1)[e], EVL(n0, n1)[e]>>)]

\* faulty variant: the upper vertices left to right, as the lower ones
vertex_offsets_row_order(n0) == array(<<0, 1, n0 + 1, n0 + 2>>)

\* faulty variant: the four corners counted from the lower-right one
vertex_offsets_rotated(n0) == array(<<1, n0 + 2, n0 + 1, 0>>)

\* faulty variant: the upper-right offset written twice
vertex_offsets_repeated(n0) == array(<<0, 1, n0 + 2, n0 + 2>>)

\* the offsets added to the tiled EVL column
vertex_offsets(n0) == array(<<0, 1, n0 + 2, n0 + 1>>)

\* np.tile(EVL[:, newaxis], 4) + offsets : the four vertices of each cell
codim1_subentities(n0, n1) ==
    [e \in 0 .. n_elements(n0, n1) - 1 |->
        [k \in 0 .. 3 |-> EVL(n0, n1)[e] + vertex_offsets(n0)[k]]]

init_subentities(n0, n1) == array(<<codim0_subentities(n0, n1), codim1_subentities(n0, n1)>>)

\* GEOMETRY (rect.py 45-54, 80-86). domain = [[a, b], [c, d]] is the pair of
\* the lower-left and the upper-right corner of the rectangle.
default_domain == <<<<0, 0>>, <<1, 1>>>>
x0_width(dom) == dom[2][1] - dom[1][1]
x1_width(dom) == dom[2][2] - dom[1][2]
x0_diameter(n0, dom) == fdiv(float(x0_width(dom)), float(n0))
x1_diameter(n1, dom) == fdiv(float(x1_width(dom)), float(n1))
\* np.arange(n) * diameter + lower
scaled_arange(n, diameter, lower) ==
    ndarray([i \in 0 .. n - 1 |-> fadd(fmul(float(i), diameter), lower)])
x0_shifts(n0, dom) == scaled_arange(n0, x0_diameter(n0, dom), float(dom[1][1]))
x1_shifts(n1, dom) == scaled_arange(n1, x1_diameter(n1, dom), float(dom[1][2]))

\* faulty variant: the meshgrid read column by column
meshgrid_column_major(xs, ys, n0, n1) ==
    ndarray([e \in 0 .. n_elements(n0, n1) - 1 |-> array(<<xs[e \div n1], ys[e % n1]>>)])

\* np.array(np.meshgrid(xs, ys)).reshape((2, -1)).T: row e holds the entries
\* of the column e % n0 and of the row e // n0
meshgrid(xs, ys, n0, n1) ==
    ndarray([e \in 0 .. n_elements(n0, n1) - 1 |-> array(<<xs[e % n0], ys[e \div n0]>>)])

shifts_column_major(n0, n1, dom) ==
    meshgrid_column_major(x0_shifts(n0, dom), x1_shifts(n1, dom), n0, n1)

shifts(n0, n1, dom) == meshgrid(x0_shifts(n0, dom), x1_shifts(n1, dom), n0, n1)

\* faulty variant: the two diameters on each other's axis
diag_diameters_swapped(n0, n1, dom) ==
    array(<<array(<<x1_diameter(n1, dom), float(0)>>),
            array(<<float(0), x0_diameter(n0, dom)>>)>>)

\* np.diag([x0_diameter, x1_diameter])
diag_diameters(n0, n1, dom) ==
    array(<<array(<<x0_diameter(n0, dom), float(0)>>),
            array(<<float(0), x1_diameter(n1, dom)>>)>>)

\* self.__embeddings = (A, B)
\* np.tile(M, (n, 1, 1))
tile(M, n) == ndarray([e \in 0 .. n - 1 |-> M])

init_embeddings(n0, n1, dom) ==
    <<tile(diag_diameters(n0, n1, dom), n_elements(n0, n1)), shifts(n0, n1, dom)>>

(***************************************************************************)
(* The numbering of the docstring's picture of the lattice, for n0 x n1    *)
(* cells: vertices row by row; the vertical edges first, row by row, then  *)
(* the horizontal edges, row by row.                                       *)
(***************************************************************************)
vertex_column(v) == v % (x0_num_intervals + 1)
vertex_row(v) == v \div (x0_num_intervals + 1)
num_vertical_edges == (x0_num_intervals + 1) * x1_num_intervals
is_vertical(g) == g < num_vertical_edges
\* the two end vertices of the edge g
edge_ends(g) ==
    IF is_vertical(g)
    THEN {g, g + x0_num_intervals + 1}
    ELSE LET h == g - num_vertical_edges
             v == (h \div x0_num_intervals) * (x0_num_intervals + 1) + (h % x0_num_intervals)
         IN {v, v + 1}
vertex_on_perimeter(v) ==
    \/ vertex_column(v) \in {0, x0_num_intervals}
    \/ vertex_row(v) \in {0, x1_num_intervals}
\* an edge lies on the perimeter iff it runs along one of the four outer sides
edge_on_perimeter(g) ==
    IF is_vertical(g)
    THEN g % (x0_num_intervals + 1) \in {0, x0_num_intervals}
    ELSE (g - num_vertical_edges) \div x0_num_intervals \in {0, x1_num_intervals}
\* the position of the vertex v: the lattice divides the rectangle `domain`
\* evenly
vertex_position(v) ==
    array(<<RatAdd(float(domain[1][1]),
                   Rat(vertex_column(v) * (domain[2][1] - domain[1][1]), x0_num_intervals)),
            RatAdd(float(domain[1][2]),
                   Rat(vertex_row(v) * (domain[2][2] - domain[1][2]), x1_num_intervals))>>)
\* column i and row j of the cell e = j * n0 + i
cell_column(e) == e % x0_num_intervals
cell_row(e) == e \div x0_num_intervals

(***************************************************************************)
(* RectGrid.size and the values of the subentity relation.                 *)
(***************************************************************************)
RectGrid_size(codim) ==
    IF ~(0 <= codim /\ codim <= 2) THEN assert_CodimError
    ELSE Ok(sizes[codim])

\* AffineGridInterface.reference_element(codim) of a RectGrid
reference_element(codim) == Square_sub_reference_element(codim).val

\* the columns of a padded row that hold an entity, not padding
valid_entries(row) == {n \in DOMAIN row : row[n] # Sentinel}

Max(S) == CHOOSE m \in S : \A x \in S : x <= m
Min(S) == CHOOSE m \in S : \A x \in S : m <= x

\* the pairs <<p, s>> of a finite set in ascending order of p, then of s
RECURSIVE sorted_pairs(_)
sorted_pairs(S) ==
    IF S = {} THEN <<>>
    ELSE LET m == CHOOSE a \in S : \A b \in S :
                      a[1] < b[1] \/ (a[1] = b[1] /\ a[2] <= b[2])
         IN <<m>> \o sorted_pairs(S \ {m})

\* all index pairs <<p, s>> of the table SE
index_pairs(SE) == UNION {{<<p, s>> : s \in DOMAIN SE[p]} : p \in DOMAIN SE}

\* per child e < size_rhs the pairs <<p, s>> with SE[p, s] = e, ascending
hits_by_child(SE, size_rhs) ==
    ndarray([e \in 0 .. size_rhs - 1 |->
                sorted_pairs({ps \in index_pairs(SE) : SE[ps[1]][ps[2]] = e})])

\* component i of the hits of each child, in rows of the given width
padded(hits, width, i) ==
    ndarray([e \in DOMAIN hits |-> ndarray([n \in 0 .. width - 1 |->
                IF n < Len(hits[e]) THEN hits[e][n + 1][i] ELSE Sentinel])])

max_row_width(hits) == Max({Len(hits[e]) : e \in DOMAIN hits} \cup {0})

padded_rows(hits) ==
    <<padded(hits, max_row_width(hits), 1), padded(hits, max_row_width(hits), 2)>>

\* the inverse of the relation SE[p, s] = e, for the children e < size_rhs:
\* per child the parents in ascending order with the child's local slot in
\* each, rows padded to the widest row
inverse_relation(SE, size_rhs) == padded_rows(hits_by_child(SE, size_rhs))

RECURSIVE subentities_value(_, _)

superentities_with_indices(codim, superentity_codim) ==
    inverse_relation(subentities_value(superentity_codim, codim), sizes[codim])

\* row e: the subentities SE[P] of the first parent P = SI[1][e, 0] of e, at
\* the local indices RSE[I] the reference element lists for e's slot I in P
through_first_parent(SI, SE, RSE, n) ==
    ndarray([e \in 0 .. n - 1 |->
        ndarray([k \in DOMAIN RSE[SI[2][e][0]] |-> SE[SI[1][e][0]][RSE[SI[2][e][0]][k]]])])

\* the default implementation for codim > 0: through the parent of lowest
\* global index and the local subentity table of the reference element
default_subentities(codim, subentity_codim) ==
    IF subentity_codim = codim THEN newaxis(arange(sizes[codim]))
    ELSE through_first_parent(superentities_with_indices(codim, codim - 1),
                              subentities_value(codim - 1, subentity_codim),
                              ref_subentities(reference_element(codim - 1), 1,
                                              subentity_codim - (codim - 1)).val,
                              sizes[codim])

\* the value RectGrid.subentities returns for valid (codim, subentity_codim)
subentities_value(codim, subentity_codim) ==
    IF codim = 0
    THEN IF subentity_codim = 0
         THEN newaxis(arange(RectGrid_size(0).val))
         ELSE subentities_tables[subentity_codim - 1]
    ELSE default_subentities(codim, subentity_codim)

subentity_codim_of(codim, subentity_codim_arg) ==
    IF subentity_codim_arg = None THEN codim + 1 ELSE subentity_codim_arg

RectGrid_subentities(codim, subentity_codim_arg) ==
    IF ~(0 <= codim /\ codim <= 2) THEN assert_CodimError
    ELSE IF ~(codim <= subentity_codim_of(codim, subentity_codim_arg)
              /\ subentity_codim_of(codim, subentity_codim_arg) <= dim)
    THEN assert_CodimError
    ELSE Ok(subentities_value(codim, subentity_codim_of(codim, subentity_codim_arg)))

(***************************************************************************)
(* The derived accessors of ConformalTopologicalGridInterface; their       *)
(* default implementations validate the codimensions themselves.           *)
(***************************************************************************)
InvalidCodimension == Raise("CodimError")

superentity_codim_of(codim, superentity_codim_arg) ==
    IF superentity_codim_arg = None THEN codim - 1 ELSE superentity_codim_arg

valid_superentity_args(codim, superentity_codim_arg) ==
    /\ 0 <= codim /\ codim <= dim
    /\ 0 <= superentity_codim_of(codim, superentity_codim_arg)
    /\ superentity_codim_of(codim, superentity_codim_arg) <= codim

superentities(codim, superentity_codim_arg) ==
    IF ~valid_superentity_args(codim, superentity_codim_arg) THEN InvalidCodimension
    ELSE Ok(superentities_with_indices(codim, superentity_codim_of(codim, superentity_codim_arg))[1])

superentity_indices(codim, superentity_codim_arg) ==
    IF ~valid_superentity_args(codim, superentity_codim_arg) THEN InvalidCodimension
    ELSE Ok(superentities_with_indices(codim, superentity_codim_of(codim, superentity_codim_arg))[2])

\* the rows of the padded table SE with exactly one valid entry
exactly_one_valid(SE) ==
    ndarray([e \in DOMAIN SE |-> Cardinality(valid_entries(SE[e])) = 1])

\* the rows of the table T with a valid entry that the mask M marks
any_marked(T, M) ==
    ndarray([e \in DOMAIN T |-> \E n \in valid_entries(T[e]) : M[T[e][n]]])

\* a codim-1 entity is a boundary entity iff it has exactly one codim-0
\* superentity
boundary_mask_1 == exactly_one_valid(superentities_with_indices(1, 0)[1])

\* any other entity is a boundary entity iff one of its codim-1 subentities
\* (codim 0) or codim-1 superentities (codim > 1) is a boundary entity
boundary_mask_value(codim) ==
    IF codim = 1 THEN boundary_mask_1
    ELSE IF codim = 0 THEN any_marked(subentities_value(0, 1), boundary_mask_1)
    ELSE any_marked(superentities_with_indices(codim, 1)[1], boundary_mask_1)

boundary_mask(codim) ==
    IF ~(0 <= codim /\ codim <= dim) THEN InvalidCodimension
    ELSE Ok(boundary_mask_value(codim))

RECURSIVE ascending(_)
ascending(S) ==
    IF S = {} THEN <<>> ELSE <<Min(S)>> \o ascending(S \ {Min(S)})

\* np.where(mask)[0]: the indices of the true entries, ascending
where(M) == array(ascending({e \in DOMAIN M : M[e]}))

boundaries_value(codim) == where(boundary_mask_value(codim))

boundaries(codim) ==
    IF ~(0 <= codim /\ codim <= dim) THEN InvalidCodimension
    ELSE Ok(boundaries_value(codim))

\* neighbours: the intersection codimension used when the argument is omitted
intersection_codim_of(codim, neighbour_codim, intersection_codim_arg) ==
    IF intersection_codim_arg # None THEN intersection_codim_arg
    ELSE IF codim = neighbour_codim THEN codim
    ELSE Min({codim, neighbour_codim})

\* neighbours is computed from subentities(codim, intersection_codim) and
\* superentities(intersection_codim, neighbour_codim): both have to be valid
valid_neighbour_args(codim, neighbour_codim, intersection_codim) ==
    /\ 0 <= neighbour_codim /\ neighbour_codim <= dim
    /\ RectGrid_subentities(codim, intersection_codim).kind = "ok"
    /\ valid_superentity_args(intersection_codim, neighbour_codim)

\* faulty variant: the entity is not taken out of its own row
neighbour_set_keeps_self(SUB, SUP, e, self) ==
    UNION {{SUP[i][n] : n \in valid_entries(SUP[i])} : i \in {SUB[e][k] : k \in DOMAIN SUB[e]}}

\* the superentities SUP[i] of all the intersections i = SUB[e, k] of e,
\* each once, without the entities of `self`
neighbour_set(SUB, SUP, e, self) ==
    (UNION {{SUP[i][n] : n \in valid_entries(SUP[i])} : i \in {SUB[e][k] : k \in DOMAIN SUB[e]}})
        \ self

neighbour_sets(SUB, SUP, same_codim) ==
    ndarray([e \in DOMAIN SUB |-> neighbour_set(SUB, SUP, e, IF same_codim THEN {e} ELSE {})])

\* a row of the given width: the sequence, then padding
pad_row(seq, width) ==
    ndarray([n \in 0 .. width - 1 |-> IF n < Len(seq) THEN seq[n + 1] ELSE Sentinel])

\* one row per set, ascending, all rows padded to the largest set
rows_of_sets(sets) ==
    ndarray([e \in DOMAIN sets |->
                pad_row(ascending(sets[e]),
                        Max({Cardinality(sets[d]) : d \in DOMAIN sets} \cup {0}))])

neighbours_value(codim, neighbour_codim, intersection_codim) ==
    rows_of_sets(neighbour_sets(subentities_value(codim, intersection_codim),
                                superentities_with_indices(intersection_codim, neighbour_codim)[1],
                                codim = neighbour_codim))

neighbours(codim, neighbour_codim, intersection_codim_arg) ==
    IF ~valid_neighbour_args(codim, neighbour_codim,
                             intersection_codim_of(codim, neighbour_codim, intersection_codim_arg))
    THEN InvalidCodimension
    ELSE Ok(neighbours_value(codim, neighbour_codim,
                             intersection_codim_of(codim, neighbour_codim, intersection_codim_arg)))

(***************************************************************************)
(* The geometry of AffineGridInterface. RectGrid.embeddings answers codim  *)
(* 0 from its table; for codim > 0 the default implementation composes the *)
(* embedding of the codim-0 superentity p of lowest global index with the  *)
(* reference element's embedding of the slot the entity has in p.          *)
(***************************************************************************)
\* (A_p . A_slot, A_p . B_slot + B_p) per entity e, p = SI[1][e, 0] the first
\* parent and SI[2][e, 0] the slot of e in it
composed_embeddings(SI, E, RE, n) ==
    <<ndarray([e \in 0 .. n - 1 |->
                 matmul(E[1][SI[1][e][0]], floats2(RE[1][SI[2][e][0]]))]),
      ndarray([e \in 0 .. n - 1 |->
                 vecadd(matvec(E[1][SI[1][e][0]], floats1(RE[2][SI[2][e][0]])),
                        E[2][SI[1][e][0]])])>>

default_embeddings(codim) ==
    composed_embeddings(superentities_with_indices(codim, 0), embeddings_tables,
                        ref_subentity_embedding(reference_element(0), codim).val,
                        sizes[codim])

embeddings_value(codim) ==
    IF codim = 0 THEN embeddings_tables ELSE default_embeddings(codim)

RectGrid_embeddings(codim) ==
    IF codim = 0 THEN Ok(embeddings_tables)
    ELSE IF ~(0 <= codim /\ codim <= dim) THEN InvalidCodimension
    ELSE Ok(default_embeddings(codim))

\* the number of columns of the linear parts of codimension codim
num_columns(codim) == dim - codim

\* A^T A of the linear part A of an embedding
gram(A, k) == matmul(transposed(A, k), A)

\* A (A^T A)^-1: the transposed (pseudo-)inverse of a linear part with k >= 1
\* independent columns
pinv_transposed(A, k) == matmul(A, inverse(gram(A, k), k))

jacobian_inverse_transposed_of(E, n, k) ==
    ndarray([e \in 0 .. n - 1 |-> pinv_transposed(E[1][e], k)])

jacobian_inverse_transposed(codim) ==
    jacobian_inverse_transposed_of(embeddings_value(codim), sizes[codim],
                                   num_columns(codim))

\* sqrt(det(A^T A))
integration_element(A, k) == fsqrt(det(gram(A, k), k))

integration_elements_of(E, n, k) ==
    ndarray([e \in 0 .. n - 1 |-> integration_element(E[1][e], k)])

integration_elements(codim) ==
    integration_elements_of(embeddings_value(codim), sizes[codim], num_columns(codim))

\* Point.volume, Line.volume, Square.volume
ref_volume(el) == float(1)

\* integration_elements(codim) * reference_element(codim).volume
volumes_of(IE, vol) == ndarray([e \in DOMAIN IE |-> fmul(IE[e], vol)])

volumes_value(codim) ==
    volumes_of(integration_elements(codim), ref_volume(reference_element(codim)))

volumes(codim) ==
    IF ~(0 <= codim /\ codim <= dim) THEN InvalidCodimension ELSE Ok(volumes_value(codim))

\* faulty variant: the normals listed from the left side on
Square_unit_outer_normals_from_left ==
    array(<<array(<<-1, 0>>), array(<<0, -1>>), array(<<1, 0>>), array(<<0, 1>>)>>)

\* Square.unit_outer_normals
Square_unit_outer_normals ==
    array(<<array(<<0, -1>>), array(<<1, 0>>), array(<<0, 1>>), array(<<-1, 0>>)>>)

\* the reference normals mapped through the inverse-transpose of the cell's
\* linear part and scaled back to unit length
mapped_normals(JIT, N) ==
    ndarray([e \in DOMAIN JIT |->
        ndarray([i \in DOMAIN N |-> normalized(matvec(JIT[e], floats1(N[i])))])])

unit_outer_normals_value ==
    mapped_normals(jacobian_inverse_transposed(0), Square_unit_outer_normals)


(***************************************************************************)
(* The cache of the default implementations: one entry per (operation,     *)
(* arguments) key, filled by the first call with that key and by the       *)
(* accessor calls made while computing it.                                 *)
(***************************************************************************)
cache_key(op, a, b) == <<op, a, b>>

RECURSIVE keys_subentities(_, _)
keys_superentities(op, codim, superentity_codim_arg) ==
    {cache_key(op, codim, superentity_codim_arg)}
        \cup keys_subentities(superentity_codim_of(codim, superentity_codim_arg), codim)

\* RectGrid.subentities answers codim 0 itself and hands codim > 0, with the
\* subentity codimension resolved, to the cached default implementation
keys_subentities(codim, subentity_codim) ==
    IF codim = 0 THEN {}
    ELSE {cache_key("subentities", codim, subentity_codim)} \cup
         (IF subentity_codim = codim THEN {}
          ELSE keys_superentities("superentities", codim, codim - 1)
                   \cup keys_superentities("superentity_indices", codim, codim - 1)
                   \cup keys_subentities(codim - 1, subentity_codim))

keys_boundary_mask(codim) ==
    {cache_key("boundary_mask", codim, None), cache_key("boundary_mask", 1, None),
     cache_key("superentities", 1, 0)}
        \cup (IF codim > 1 THEN keys_superentities("superentities", codim, 1) ELSE {})

keys_boundaries(codim) ==
    {cache_key("boundaries", codim, None)} \cup keys_boundary_mask(codim)

keys_embeddings(codim) ==
    IF codim = 0 THEN {}
    ELSE {cache_key("embeddings", codim, None)}
             \cup keys_superentities("superentities", codim, 0)
             \cup keys_superentities("superentity_indices", codim, 0)

keys_volumes(codim) ==
    {cache_key("volumes", codim, None), cache_key("integration_elements", codim, None)}
        \cup keys_embeddings(codim)

keys_unit_outer_normals ==
    {cache_key("unit_outer_normals", None, None),
     cache_key("jacobian_inverse_transposed", 0, None)}

\* the second component of a neighbours key: the other two arguments
keys_neighbours(codim, neighbour_codim, intersection_codim_arg) ==
    {cache_key("neighbours", codim, <<neighbour_codim, intersection_codim_arg>>)}
        \cup keys_subentities(codim, intersection_codim_of(codim, neighbour_codim,
                                                           intersection_codim_arg))
        \cup keys_superentities("superentities",
                                intersection_codim_of(codim, neighbour_codim,
                                                      intersection_codim_arg),
                                neighbour_codim)

\* the value a valid key is cached with
key_value(key) ==
    IF key[1] = "subentities" THEN subentities_value(key[2], key[3])
    ELSE IF key[1] = "superentities" THEN superentities(key[2], key[3]).val
    ELSE IF key[1] = "superentity_indices" THEN superentity_indices(key[2], key[3]).val
    ELSE IF key[1] = "boundary_mask" THEN boundary_mask_value(key[2])
    ELSE IF key[1] = "neighbours" THEN neighbours(key[2], key[3][1], key[3][2]).val
    ELSE IF key[1] = "embeddings" THEN embeddings_value(key[2])
    ELSE IF key[1] = "volumes" THEN volumes_value(key[2])
    ELSE IF key[1] = "integration_elements" THEN integration_elements(key[2])
    ELSE IF key[1] = "jacobian_inverse_transposed" THEN jacobian_inverse_transposed(key[2])
    ELSE IF key[1] = "unit_outer_normals" THEN unit_outer_normals_value
    ELSE boundaries_value(key[2])

populate(keys) ==
    [k \in DOMAIN cache \cup keys |-> IF k \in DOMAIN cache THEN cache[k] ELSE key_value(k)]

\* a cached default implementation: a hit returns the stored value
lookup(key, computed) == IF key \in DOMAIN cache THEN Ok(cache[key]) ELSE computed

\* faulty variant: the results of the accessors called on the way are dropped
stored_own_key_only(key, kind, keys) ==
    IF key \in DOMAIN cache \/ kind # "ok" THEN cache ELSE populate({key})

\* faulty variant: a miss replaces the cache by what it has just computed
stored_latest_only(key, kind, keys) ==
    IF key \in DOMAIN cache \/ kind # "ok" THEN cache ELSE [k \in keys |-> key_value(k)]

\* the cache after a call with this key that returned or raised `kind`
stored(key, kind, keys) ==
    IF key \in DOMAIN cache \/ kind # "ok" THEN cache ELSE populate(keys)

\* how often each key has been computed, after a call with this key: a miss
\* computes the keys that it fills, a hit computes nothing
counted(key, kind, keys) ==
    IF key \in DOMAIN cache \/ kind # "ok" THEN ncomputed
    ELSE [k \in DOMAIN ncomputed \cup keys |->
             (IF k \in DOMAIN ncomputed THEN ncomputed[k] ELSE 0)
                 + (IF k \in keys \ DOMAIN cache THEN 1 ELSE 0)]

(***************************************************************************)
(* State machine: a RectGrid is constructed, then its accessors are called.*)
(***************************************************************************)
Returned(obj, op, a, b, out) ==
    [obj |-> obj, op |-> op, args |-> <<a, b>>, kind |-> out.kind, val |-> out.val]

\* a grid as its constructor call: the class and the arguments
Grid(cls, dom, num_intervals) == [cls |-> cls, domain |-> dom, num_intervals |-> num_intervals]

\* RectGrid(num_intervals=(n0, n1), domain=dom) in a run that computes its
\* floats in the arithmetic ar: a fresh grid whose cache is empty and that no
\* reader uses yet
ConstructIn(ar, n0, n1, dom) ==
    /\ arithmetic = ar
    /\ sampler = NoVal
    /\ x0_num_intervals = n0
    /\ x1_num_intervals = n1
    /\ domain = dom
    /\ sizes = init_sizes(n0, n1)
    /\ subentities_tables = init_subentities(n0, n1)
    /\ embeddings_tables = init_embeddings(n0, n1, dom)
    /\ constructed = <<Grid("RectGrid", dom, <<n0, n1>>)>>
    /\ cache = <<>>
    /\ ncomputed = <<>>
    /\ result = Returned("grid", "__init__", n0, n1, Ok(NoVal))
    /\ ncalls = 0
    /\ readers = <<>>
    /\ observed = {}

Construct(n0, n1, dom) == ConstructIn("exact", n0, n1, dom)

Init ==
    /\ \E n0 \in 1 .. MaxN, n1 \in 1 .. MaxN : Construct(n0, n1, default_domain)
    /\ call_limit = MaxCalls

CallSize(codim) ==
    /\ ncalls < call_limit
    /\ result' = Returned("grid", "size", codim, None, RectGrid_size(codim))
    /\ ncalls' = ncalls + 1
    /\ UNCHANGED <<grid_vars, cache, ncomputed, reader_vars>>

\* RectGrid.subentities: the asserts, then codim 0 from the primitive tables
\* and codim > 0 from the cached default implementation
CallSubentities(codim, subentity_codim_arg) ==
    /\ ncalls < call_limit
    /\ result' = Returned("grid", "subentities", codim, subentity_codim_arg,
                   IF codim > 0 /\ RectGrid_subentities(codim, subentity_codim_arg).kind = "ok"
                   THEN lookup(cache_key("subentities", codim,
                                         subentity_codim_of(codim, subentity_codim_arg)),
                               RectGrid_subentities(codim, subentity_codim_arg))
                   ELSE RectGrid_subentities(codim, subentity_codim_arg))
    /\ cache' = IF codim > 0
                THEN stored(cache_key("subentities", codim,
                                      subentity_codim_of(codim, subentity_codim_arg)),
                            result'.kind,
                            keys_subentities(codim, subentity_codim_of(codim, subentity_codim_arg)))
                ELSE cache
    /\ ncomputed' = IF codim > 0
                    THEN counted(cache_key("subentities", codim,
                                           subentity_codim_of(codim, subentity_codim_arg)),
                                 result'.kind,
                                 keys_subentities(codim, subentity_codim_of(codim, subentity_codim_arg)))
                    ELSE ncomputed
    /\ ncalls' = ncalls + 1
    /\ UNCHANGED <<grid_vars, reader_vars>>

CallSuperentities(codim, superentity_codim_arg) ==
    /\ ncalls < call_limit
    /\ result' = Returned("grid", "superentities", codim, superentity_codim_arg,
                   lookup(cache_key("superentities", codim, superentity_codim_arg),
                          superentities(codim, superentity_codim_arg)))
    /\ cache' = stored(cache_key("superentities", codim, superentity_codim_arg), result'.kind,
                       keys_superentities("superentities", codim, superentity_codim_arg))
    /\ ncomputed' = counted(cache_key("superentities", codim, superentity_codim_arg), result'.kind,
                       keys_superentities("superentities", codim, superentity_codim_arg))
    /\ ncalls' = ncalls + 1
    /\ UNCHANGED <<grid_vars, reader_vars>>

CallSuperentityIndices(codim, superentity_codim_arg) ==
    /\ ncalls < call_limit
    /\ result' = Returned("grid", "superentity_indices", codim, superentity_codim_arg,
                   lookup(cache_key("superentity_indices", codim, superentity_codim_arg),
                          superentity_indices(codim, superentity_codim_arg)))
    /\ cache' = stored(cache_key("superentity_indices", codim, superentity_codim_arg),
                       result'.kind,
                       keys_superentities("superentity_indices", codim, superentity_codim_arg))
    /\ ncomputed' = counted(cache_key("superentity_indices", codim, superentity_codim_arg),
                       result'.kind,
                       keys_superentities("superentity_indices", codim, superentity_codim_arg))
    /\ ncalls' = ncalls + 1
    /\ UNCHANGED <<grid_vars, reader_vars>>

CallBoundaryMask(codim) ==
    /\ ncalls < call_limit
    /\ result' = Returned("grid", "boundary_mask", codim, None,
                   lookup(cache_key("boundary_mask", codim, None), boundary_mask(codim)))
    /\ cache' = stored(cache_key("boundary_mask", codim, None), result'.kind,
                       keys_boundary_mask(codim))
    /\ ncomputed' = counted(cache_key("boundary_mask", codim, None), result'.kind,
                       keys_boundary_mask(codim))
    /\ ncalls' = ncalls + 1
    /\ UNCHANGED <<grid_vars, reader_vars>>

CallBoundaries(codim) ==
    /\ ncalls < call_limit
    /\ result' = Returned("grid", "boundaries", codim, None,
                   lookup(cache_key("boundaries", codim, None), boundaries(codim)))
    /\ cache' = stored(cache_key("boundaries", codim, None), result'.kind,
                       keys_boundaries(codim))
    /\ ncomputed' = counted(cache_key("boundaries", codim, None), result'.kind,
                       keys_boundaries(codim))
    /\ ncalls' = ncalls + 1
    /\ UNCHANGED <<grid_vars, reader_vars>>

CallNeighbours(codim, neighbour_codim, intersection_codim_arg) ==
    /\ ncalls < call_limit
    /\ result' = Returned("grid", "neighbours", codim,
                          <<neighbour_codim, intersection_codim_arg>>,
                          lookup(cache_key("neighbours", codim,
                                           <<neighbour_codim, intersection_codim_arg>>),
                                 neighbours(codim, neighbour_codim, intersection_codim_arg)))
    /\ cache' = stored(cache_key("neighbours", codim,
                                 <<neighbour_codim, intersection_codim_arg>>),
                       result'.kind,
                       keys_neighbours(codim, neighbour_codim, intersection_codim_arg))
    /\ ncomputed' = counted(cache_key("neighbours", codim,
                                      <<neighbour_codim, intersection_codim_arg>>),
                            result'.kind,
                            keys_neighbours(codim, neighbour_codim, intersection_codim_arg))
    /\ ncalls' = ncalls + 1
    /\ UNCHANGED <<grid_vars, reader_vars>>

\* RectGrid.embeddings: codim 0 from the table, codim > 0 from the cached
\* default implementation
CallEmbeddings(codim) ==
    /\ ncalls < call_limit
    /\ result' = Returned("grid", "embeddings", codim, None,
                   IF codim = 0 THEN RectGrid_embeddings(codim)
                   ELSE lookup(cache_key("embeddings", codim, None),
                               RectGrid_embeddings(codim)))
    /\ cache' = IF codim = 0 THEN cache
                ELSE stored(cache_key("embeddings", codim, None), result'.kind,
                            keys_embeddings(codim))
    /\ ncomputed' = IF codim = 0 THEN ncomputed
                    ELSE counted(cache_key("embeddings", codim, None), result'.kind,
                                 keys_embeddings(codim))
    /\ ncalls' = ncalls + 1
    /\ UNCHANGED <<grid_vars, reader_vars>>

CallVolumes(codim) ==
    /\ ncalls < call_limit
    /\ result' = Returned("grid", "volumes", codim, None,
                   lookup(cache_key("volumes", codim, None), volumes(codim)))
    /\ cache' = stored(cache_key("volumes", codim, None), result'.kind, keys_volumes(codim))
    /\ ncomputed' = counted(cache_key("volumes", codim, None), result'.kind,
                            keys_volumes(codim))
    /\ ncalls' = ncalls + 1
    /\ UNCHANGED <<grid_vars, reader_vars>>

CallUnitOuterNormals ==
    /\ ncalls < call_limit
    /\ result' = Returned("grid", "unit_outer_normals", None, None,
                   lookup(cache_key("unit_outer_normals", None, None),
                          Ok(unit_outer_normals_value)))
    /\ cache' = stored(cache_key("unit_outer_normals", None, None), result'.kind,
                       keys_unit_outer_normals)
    /\ ncomputed' = counted(cache_key("unit_outer_normals", None, None), result'.kind,
                            keys_unit_outer_normals)
    /\ ncalls' = ncalls + 1
    /\ UNCHANGED <<grid_vars, reader_vars>>

Next ==
    \/ \E codim \in Codims : CallSize(codim)
    \/ \E codim \in Codims, sc \in CodimsOrNone : CallSubentities(codim, sc)
    \/ \E codim \in Codims, sc \in CodimsOrNone : CallSuperentities(codim, sc)
    \/ \E codim \in Codims, sc \in CodimsOrNone : CallSuperentityIndices(codim, sc)
    \/ \E codim \in Codims : CallBoundaryMask(codim)
    \/ \E codim \in Codims : CallBoundaries(codim)

Spec == Init /\ [][Next]_vars

(***************************************************************************)
(* State machine of the cache: on a default RectGrid() the derived         *)
(* accessors are called, with valid arguments, one call after the other.   *)
(* A call looks its key up, computes on a miss whatever is not cached yet, *)
(* and stores it. `observed` records the value each call handed out.       *)
(***************************************************************************)
\* the (operation, arguments) keys of the derived accessors with valid
\* arguments (of neighbours: the neighbours of the entity's own codimension)
DerivedKeys ==
    UNION {
        {cache_key("subentities", c, sc) : sc \in IF c = 0 THEN {} ELSE c .. dim} \cup
        {cache_key(op, c, sc) : op \in {"superentities", "superentity_indices"},
                                sc \in {a \in CodimsOrNone : valid_superentity_args(c, a)}} \cup
        {cache_key(op, c, None) : op \in {"boundary_mask", "boundaries"}} \cup
        {cache_key("neighbours", c, a) :
             a \in {b \in {c} \X CodimsOrNone :
                 valid_neighbour_args(c, b[1], intersection_codim_of(c, b[1], b[2]))}}
        : c \in 0 .. dim}

\* the keys a computation of `key` fills: its own and those of the accessors
\* it calls
nested_keys(key) ==
    IF key[1] = "subentities" THEN keys_subentities(key[2], key[3])
    ELSE IF key[1] \in {"superentities", "superentity_indices"}
    THEN keys_superentities(key[1], key[2], key[3])
    ELSE IF key[1] = "boundary_mask" THEN keys_boundary_mask(key[2])
    ELSE IF key[1] = "neighbours" THEN keys_neighbours(key[2], key[3][1], key[3][2])
    ELSE keys_boundaries(key[2])

CachedCall(key) ==
    /\ ncalls < call_limit
    /\ result' = Returned("grid", key[1], key[2], key[3], lookup(key, Ok(key_value(key))))
    /\ cache' = stored(key, "ok", nested_keys(key))
    /\ ncomputed' = counted(key, "ok", nested_keys(key))
    /\ observed' = observed \cup {<<key, result'.val>>}
    /\ ncalls' = ncalls + 1
    /\ UNCHANGED <<grid_vars, call_limit, readers>>

InitCache == Construct(2, 2, default_domain) /\ call_limit = MaxCacheCalls

NextCache == \E key \in DerivedKeys : CachedCall(key)

SpecCache == InitCache /\ [][NextCache]_vars

(***************************************************************************)
(* State machine of concurrent readers: several readers share a default    *)
(* RectGrid() and call its derived accessors. A call is two steps: the     *)
(* lookup, which on a hit hands the cached value out, and on a miss the    *)
(* computation, which stores its results and hands the value out. Nothing  *)
(* keeps two readers from missing and computing the same key.              *)
(***************************************************************************)
Idle == [pc |-> "idle", key |-> NoVal]

\* the keys the readers ask for
ReaderKeys == {k \in DerivedKeys : k[1] \in {"superentities", "boundary_mask", "boundaries"}}

\* faulty variant: the key is published, without a value, before it is computed
in_flight_placeholder(key) ==
    [k \in DOMAIN cache \cup {key} |-> IF k = key THEN NoVal ELSE cache[k]]

\* the cache while `key` is being computed: nothing of it is visible yet
in_flight(key) == cache

\* the cache after the computation of `keys`: recomputed entries overwrite
\* what another reader stored in the meantime
overwritten(keys) ==
    [k \in DOMAIN cache \cup keys |-> IF k \in keys THEN key_value(k) ELSE cache[k]]

recounted(keys) ==
    [k \in DOMAIN ncomputed \cup keys |->
        (IF k \in DOMAIN ncomputed THEN ncomputed[k] ELSE 0) + (IF k \in keys THEN 1 ELSE 0)]

ReaderLookup(r, key) ==
    /\ ncalls < call_limit
    /\ readers[r].pc = "idle"
    /\ IF key \in DOMAIN cache
       THEN /\ observed' = observed \cup {<<key, cache[key]>>}
            /\ result' = Returned("grid", key[1], key[2], key[3], Ok(cache[key]))
            /\ UNCHANGED <<readers, cache>>
       ELSE /\ readers' = [readers EXCEPT ![r] = [pc |-> "computing", key |-> key]]
            /\ cache' = in_flight(key)
            /\ UNCHANGED <<observed, result>>
    /\ ncalls' = ncalls + 1
    /\ UNCHANGED <<grid_vars, call_limit, ncomputed>>

ReaderStore(r) ==
    /\ readers[r].pc = "computing"
    /\ cache' = overwritten({k \in nested_keys(readers[r].key) :
                                k = readers[r].key \/ k \notin DOMAIN cache})
    /\ ncomputed' = recounted({k \in nested_keys(readers[r].key) :
                                  k = readers[r].key \/ k \notin DOMAIN cache})
    /\ observed' = observed \cup {<<readers[r].key, key_value(readers[r].key)>>}
    /\ result' = Returned("grid", readers[r].key[1], readers[r].key[2], readers[r].key[3],
                          Ok(key_value(readers[r].key)))
    /\ readers' = [readers EXCEPT ![r] = Idle]
    /\ UNCHANGED <<grid_vars, call_limit, ncalls>>

InitReaders ==
    /\ arithmetic = "exact"
    /\ sampler = NoVal
    /\ x0_num_intervals = 2
    /\ x1_num_intervals = 2
    /\ domain = default_domain
    /\ sizes = init_sizes(2, 2)
    /\ subentities_tables = init_subentities(2, 2)
    /\ embeddings_tables = init_embeddings(2, 2, default_domain)
    /\ constructed = <<Grid("RectGrid", default_domain, <<2, 2>>)>>
    /\ cache = <<>>
    /\ ncomputed = <<>>
    /\ result = Returned("grid", "__init__", 2, 2, Ok(NoVal))
    /\ ncalls = 0
    /\ call_limit = MaxCacheCalls
    /\ readers = [r \in 1 .. MaxReaders |-> Idle]
    /\ observed = {}

NextReaders ==
    \/ \E r \in 1 .. MaxReaders, key \in ReaderKeys : ReaderLookup(r, key)
    \/ \E r \in 1 .. MaxReaders : ReaderStore(r)

SpecReaders == InitReaders /\ [][NextReaders]_vars

(***************************************************************************)
(* State machine of the neighbour relation: a RectGrid is constructed,     *)
(* then neighbours is called.                                              *)
(***************************************************************************)
NextNbr ==
    \E codim \in Codims, nc \in 0 .. dim, ic \in (0 .. dim) \cup {None} :
        CallNeighbours(codim, nc, ic)

SpecNbr == Init /\ [][NextNbr]_vars

(***************************************************************************)
(* State machine of a client that makes several calls, one after the       *)
(* other, on a default RectGrid(): size, subentities, embeddings and the   *)
(* derived accessors, each with its default and with some explicit         *)
(* arguments.                                                              *)
(***************************************************************************)
InitFrame == Construct(2, 2, default_domain) /\ call_limit = MaxCacheCalls

NextFrame ==
    \/ \E codim \in 0 .. dim : CallSize(codim)
    \/ \E codim \in 0 .. dim, sc \in {None, dim} : CallSubentities(codim, sc)
    \/ \E codim \in 0 .. dim : CallEmbeddings(codim)
    \/ \E codim \in 0 .. dim : CallSuperentities(codim, None)
    \/ \E codim \in 0 .. dim : CallSuperentityIndices(codim, None)
    \/ \E codim \in 0 .. dim : CallBoundaryMask(codim)
    \/ \E codim \in 0 .. dim : CallBoundaries(codim)
    \/ \E codim \in 0 .. dim : CallNeighbours(codim, codim, None)

SpecFrame == InitFrame /\ [][NextFrame]_vars

(***************************************************************************)
(* State machine of the geometry: a RectGrid is constructed over a         *)
(* rectangle with integer corners, W wide and H high, then embeddings,     *)
(* volumes and unit_outer_normals are called.                              *)
(***************************************************************************)
Origins == {<<0, 0>>, <<-1, 2>>}

Domains ==
    {<<o, <<o[1] + W, o[2] + H>>>> : o \in Origins, W \in 1 .. MaxWidth, H \in 1 .. MaxWidth}

InitGeo ==
    /\ \E n0 \in 1 .. MaxN, n1 \in 1 .. MaxN, dom \in Domains : Construct(n0, n1, dom)
    /\ call_limit = MaxCalls

NextGeo ==
    \/ \E codim \in 0 .. dim : CallEmbeddings(codim)
    \/ \E codim \in 0 .. dim : CallVolumes(codim)
    \/ CallUnitOuterNormals

SpecGeo == InitGeo /\ [][NextGeo]_vars

(***************************************************************************)
(* The geometry in binary64: grids of up to MaxIntervals intervals a side  *)
(* whose floats are computed as numpy computes them, their embeddings and  *)
(* volumes called for.                                                     *)
(***************************************************************************)
\* domain = [[0, 0], [W, 1]] with W in 1..MaxWidth
FloatDomains == {<<<<0, 0>>, <<W, 1>>>> : W \in 1 .. MaxWidth}

\* before any grid is constructed
InitFloat ==
    /\ arithmetic = "binary64"
    /\ sampler = NoVal
    /\ x0_num_intervals = None
    /\ x1_num_intervals = None
    /\ domain = <<>>
    /\ sizes = <<>>
    /\ subentities_tables = <<>>
    /\ embeddings_tables = <<>>
    /\ constructed = <<>>
    /\ cache = <<>>
    /\ ncomputed = <<>>
    /\ result = Returned("grids", "import", None, None, Ok(NoVal))
    /\ ncalls = 0
    /\ call_limit = MaxCalls
    /\ readers = <<>>
    /\ observed = {}

\* grid = RectGrid(num_intervals=(n0, n1), domain=dom), the one grid of the run
RectGrid_init(n0, n1, dom) ==
    /\ constructed = <<>>
    /\ x0_num_intervals' = n0
    /\ x1_num_intervals' = n1
    /\ domain' = dom
    /\ sizes' = init_sizes(n0, n1)
    /\ subentities_tables' = init_subentities(n0, n1)
    /\ embeddings_tables' = init_embeddings(n0, n1, dom)
    /\ constructed' = <<Grid("RectGrid", dom, <<n0, n1>>)>>
    /\ result' = Returned("grid", "__init__", n0, n1, Ok(NoVal))
    /\ UNCHANGED <<arithmetic, sampler, cache, ncomputed, ncalls, reader_vars>>

NextFloat ==
    \/ \E n0 \in 1 .. MaxIntervals, n1 \in 1 .. MaxIntervals, dom \in FloatDomains :
           RectGrid_init(n0, n1, dom)
    \/ constructed # <<>> /\ CallEmbeddings(0)
    \/ constructed # <<>> /\ CallVolumes(0)

SpecFloat == InitFloat /\ [][NextFloat]_vars

(***************************************************************************)
(* State machine of the reference elements: the module-level instances    *)
(* point, line and square are called next to a default RectGrid().         *)
(***************************************************************************)
\* RectGrid(): num_intervals=(2, 2)
InitRef == Construct(2, 2, default_domain) /\ call_limit = MaxCalls

RefSize(el, codim) ==
    /\ ncalls < call_limit
    /\ result' = Returned(el, "size", codim, None, ref_size(el, codim))
    /\ ncalls' = ncalls + 1
    /\ UNCHANGED <<grid_vars, cache, ncomputed, reader_vars>>

RefSubentities(el, codim, subentity_codim) ==
    /\ ncalls < call_limit
    /\ result' = Returned(el, "subentities", codim, subentity_codim,
                          ref_subentities(el, codim, subentity_codim))
    /\ ncalls' = ncalls + 1
    /\ UNCHANGED <<grid_vars, cache, ncomputed, reader_vars>>

RefSubentityEmbedding(el, subentity_codim) ==
    /\ ncalls < call_limit
    /\ result' = Returned(el, "subentity_embedding", subentity_codim, None,
                          ref_subentity_embedding(el, subentity_codim))
    /\ ncalls' = ncalls + 1
    /\ UNCHANGED <<grid_vars, cache, ncomputed, reader_vars>>

RefSubReferenceElement(el, codim) ==
    /\ ncalls < call_limit
    /\ result' = Returned(el, "sub_reference_element", codim, None,
                          ref_sub_reference_element(el, codim))
    /\ ncalls' = ncalls + 1
    /\ UNCHANGED <<grid_vars, cache, ncomputed, reader_vars>>

NextRef ==
    \/ \E el \in ReferenceElements, codim \in Codims : RefSize(el, codim)
    \/ \E el \in ReferenceElements, codim \in Codims, sc \in Codims :
           RefSubentities(el, codim, sc)
    \/ \E el \in ReferenceElements, sc \in Codims : RefSubentityEmbedding(el, sc)
    \/ \E el \in ReferenceElements, codim \in Codims : RefSubReferenceElement(el, codim)

SpecRef == InitRef /\ [][NextRef]_vars

(***************************************************************************)
(* discretize_domain_default (domaindiscretizers/default.py). A domain     *)
(* description is its class with its domain (the lower and the upper       *)
(* corner), width and height; a grid type is the name of a grid class, or  *)
(* None.                                                                   *)
(***************************************************************************)
DomainDescriptions ==
    {[cls |-> "RectDomain", domain |-> <<<<0, 0>>, <<W, H>>>>, width |-> W, height |-> H] :
         W \in 1 .. MaxWidth, H \in 1 .. MaxWidth}
    \cup {[cls |-> "LineDomain", domain |-> <<<<0>>, <<W>>>>, width |-> W, height |-> 0] :
              W \in 1 .. MaxWidth}
    \cup {[cls |-> "CircleDomain", domain |-> <<<<0>>, <<W>>>>, width |-> W, height |-> 0] :
              W \in 1 .. MaxWidth}

GridTypes == {"None", "TriaGrid", "RectGrid", "OnedGrid", "SubGrid"}

\* the diameters asked for, as fractions that floats represent exactly
Diameters == {Rat(1, 2), float(1), float(2)}

\* int(m.ceil(width * m.sqrt(2) / diameter)): the least n with
\* n * diameter >= width * sqrt(2)
ceil_sqrt2_quotient(width, diameter) ==
    CHOOSE n \in 1 .. 2 * width * diameter[2] :
        /\ (n * diameter[1]) * (n * diameter[1]) >= 2 * (width * diameter[2]) * (width * diameter[2])
        /\ ((n - 1) * diameter[1]) * ((n - 1) * diameter[1])
               < 2 * (width * diameter[2]) * (width * diameter[2])

\* int(m.ceil(width / diameter))
ceil_quotient(width, diameter) ==
    (width * diameter[2] + diameter[1] - 1) \div diameter[1]

BoundaryInfo(grid, dd) == [cls |-> "BoundaryInfoFromIndicators", grid |-> grid.cls]

\* faulty variant: the grid type is not looked at
discretize_RectDomain_rect_only(domain_description, diameter, grid_type) ==
    Grid("RectGrid", domain_description.domain,
         <<ceil_sqrt2_quotient(domain_description.width, diameter),
           ceil_sqrt2_quotient(domain_description.height, diameter)>>)

\* the grid that discretize_RectDomain constructs
discretize_RectDomain(domain_description, diameter, grid_type) ==
    Grid(IF grid_type = "TriaGrid" THEN "TriaGrid" ELSE "RectGrid",
         domain_description.domain,
         <<ceil_sqrt2_quotient(domain_description.width, diameter),
           ceil_sqrt2_quotient(domain_description.height, diameter)>>)

\* the grid that discretize_LineDomain constructs
discretize_LineDomain(domain_description, diameter) ==
    Grid("OnedGrid", domain_description.domain,
         ceil_quotient(domain_description.width, diameter))

\* grid_type or default: None is false, a class is true
or_default(grid_type, default) ==
    IF grid_type = "None" THEN default ELSE grid_type

with_boundary_info(grid, dd) == Ok(<<grid, BoundaryInfo(grid, dd)>>)

discretize_domain_default(domain_description, diameter, grid_type) ==
    IF domain_description.cls \notin {"RectDomain", "LineDomain"}
    THEN Raise("NotImplementedError")
    ELSE IF domain_description.cls = "RectDomain"
    THEN IF or_default(grid_type, "TriaGrid") \notin {"TriaGrid", "RectGrid"}
         THEN Raise("NotImplementedError")
         ELSE with_boundary_info(
                  discretize_RectDomain(domain_description, diameter,
                                        or_default(grid_type, "TriaGrid")),
                  domain_description)
    ELSE IF or_default(grid_type, "OnedGrid") # "OnedGrid"
         THEN Raise("NotImplementedError")
         ELSE with_boundary_info(discretize_LineDomain(domain_description, diameter),
                                 domain_description)

\* is a RectGrid, whose fields the model carries, constructed by the call?
constructs_RectGrid(out) == out.kind = "ok" /\ out.val[1].cls = "RectGrid"

\* a call of discretize_domain_default: the grid it constructs, if any, is
\* appended to `constructed`; a RectGrid gets its fields from __init__
Discretize(domain_description, diameter, grid_type) ==
    /\ ncalls < call_limit
    /\ result' = Returned("domaindiscretizers", "discretize_domain_default",
                          domain_description, <<diameter, grid_type>>,
                          discretize_domain_default(domain_description, diameter, grid_type))
    /\ constructed' = IF result'.kind = "ok" THEN Append(constructed, result'.val[1])
                      ELSE constructed
    /\ x0_num_intervals' = IF constructs_RectGrid(result')
                           THEN result'.val[1].num_intervals[1] ELSE x0_num_intervals
    /\ x1_num_intervals' = IF constructs_RectGrid(result')
                           THEN result'.val[1].num_intervals[2] ELSE x1_num_intervals
    /\ domain' = IF constructs_RectGrid(result') THEN result'.val[1].domain ELSE domain
    /\ sizes' = IF constructs_RectGrid(result')
                THEN init_sizes(x0_num_intervals', x1_num_intervals') ELSE sizes
    /\ subentities_tables' = IF constructs_RectGrid(result')
                             THEN init_subentities(x0_num_intervals', x1_num_intervals')
                             ELSE subentities_tables
    /\ embeddings_tables' = IF constructs_RectGrid(result')
                            THEN init_embeddings(x0_num_intervals', x1_num_intervals', domain')
                            ELSE embeddings_tables
    /\ cache' = IF constructs_RectGrid(result') THEN <<>> ELSE cache
    /\ ncomputed' = IF constructs_RectGrid(result') THEN <<>> ELSE ncomputed
    /\ ncalls' = ncalls + 1
    /\ UNCHANGED <<reader_vars, arithmetic, sampler>>

\* before the first call there is no grid
InitDisc ==
    /\ arithmetic = "exact"
    /\ sampler = NoVal
    /\ x0_num_intervals = None
    /\ x1_num_intervals = None
    /\ domain = <<>>
    /\ sizes = <<>>
    /\ subentities_tables = <<>>
    /\ embeddings_tables = <<>>
    /\ constructed = <<>>
    /\ cache = <<>>
    /\ ncomputed = <<>>
    /\ result = Returned("domaindiscretizers", "import", None, None, Ok(NoVal))
    /\ ncalls = 0
    /\ call_limit = MaxCalls
    /\ readers = <<>>
    /\ observed = {}

NextDisc ==
    \E dd \in DomainDescriptions, diameter \in Diameters, grid_type \in GridTypes :
        Discretize(dd, diameter, grid_type)

SpecDisc == InitDisc /\ [][NextDisc]_vars

(***************************************************************************)
(* CubicParameterSpace (pymor/parameters/spaces.py). A parameter type is   *)
(* the ordered list of its keys, each with the number of entries of its    *)
(* component; `ranges` is the ordered list of <<key, <<min, max>>>>. The   *)
(* sampled values are carried in halves: the entry v stands for v / 2.     *)
(***************************************************************************)
Keys == {"a", "b"}
\* the number of entries of the component of a key (its shape)
entries(k) == IF k = "a" THEN 1 ELSE 2

ParameterTypes == {<<"a">>, <<"b">>, <<"a", "b">>, <<"b", "a">>}
Ranges == {<<0, 1>>, <<2, 3>>}

\* OrderedDict((k, (minimum, maximum)) for k in parameter_type)
ranges_of_bounds(parameter_type, minimum, maximum) ==
    [i \in DOMAIN parameter_type |-> <<parameter_type[i], <<minimum, maximum>>>>]

\* the ranges a caller may pass: a dict whose keys agree with parameter_type,
\* listed in any order
RangesFor(parameter_type) ==
    {r \in UNION {[1 .. Len(parameter_type) -> Keys \X Ranges]} :
        /\ {r[i][1] : i \in DOMAIN r} = {parameter_type[i] : i \in DOMAIN parameter_type}
        /\ \A i \in DOMAIN r, j \in DOMAIN r : r[i][1] = r[j][1] => i = j}

\* CubicParameterSpace(parameter_type, minimum, maximum) and
\* CubicParameterSpace(parameter_type, ranges=ranges)
CubicParameterSpace(parameter_type, ranges) ==
    [parameter_type |-> parameter_type, ranges |-> ranges]

\* self.ranges[k]
ranges_at(space, k) == space.ranges[CHOOSE i \in DOMAIN space.ranges : space.ranges[i][1] = k][2]

\* self.ranges.values(): the ranges in the order the dict lists them
ranges_values(space) == [i \in DOMAIN space.ranges |-> space.ranges[i][2]]

\* contains(mu)
contains(space, mu) ==
    \A i \in DOMAIN space.parameter_type :
        \A n \in DOMAIN mu[space.parameter_type[i]] :
            /\ 2 * ranges_at(space, space.parameter_type[i])[1] <= mu[space.parameter_type[i]][n]
            /\ mu[space.parameter_type[i]][n] <= 2 * ranges_at(space, space.parameter_type[i])[2]

\* np.random.uniform(low, high): some value of [low, high), in halves
uniform(low, high) == (2 * low) .. (2 * high - 1)

\* np.random.uniform(low, high, shp): an array of such values
uniform_arrays(low, high, shp) == [0 .. shp - 1 -> uniform(low, high)]

\* the parameters one pass of the loop body may yield:
\* Parameter(parameter_type, ((k, uniform(r[0], r[1], shp)) for k, r, shp in
\* izip(parameter_type, ranges.values(), parameter_type.values()))), where izip
\* pairs the i-th key with the i-th range
sampled_parameters(space) ==
    {mu \in [{space.parameter_type[i] : i \in DOMAIN space.parameter_type} ->
                UNION {uniform_arrays(0, 3, shp) : shp \in 1 .. 2}] :
        \A i \in DOMAIN space.parameter_type :
            mu[space.parameter_type[i]]
                \in uniform_arrays(ranges_values(space)[i][1], ranges_values(space)[i][2],
                                   entries(space.parameter_type[i]))}

\* it = space.sample_randomly(count): the iterator before its first next()
sample_randomly(space, count) ==
    [space |-> space, count |-> count, c |-> 0, pc |-> "created", yielded |-> <<>>]

Counts == (0 .. MaxCount) \cup {None}

InitSampler ==
    /\ arithmetic = "exact"
    /\ \E parameter_type \in ParameterTypes, count \in Counts :
          \/ \E r \in Ranges :
                sampler = sample_randomly(
                              CubicParameterSpace(parameter_type,
                                                  ranges_of_bounds(parameter_type, r[1], r[2])),
                              count)
          \/ \E ranges \in RangesFor(parameter_type) :
                sampler = sample_randomly(CubicParameterSpace(parameter_type, ranges), count)
    /\ x0_num_intervals = None
    /\ x1_num_intervals = None
    /\ domain = <<>>
    /\ sizes = <<>>
    /\ subentities_tables = <<>>
    /\ embeddings_tables = <<>>
    /\ constructed = <<>>
    /\ cache = <<>>
    /\ ncomputed = <<>>
    /\ result = Returned("parameters", "sample_randomly", sampler.count, None, Ok(NoVal))
    /\ ncalls = 0
    /\ call_limit = MaxCount + 1
    /\ readers = <<>>
    /\ observed = {}

\* the counter when the loop test is reached: `c += 1` follows the yield
counter_at_test(it) == IF it.pc = "created" THEN 0 ELSE it.c + 1

\* next(it): the iterator runs to its next yield, or leaves the loop and
\* raises StopIteration
SamplerNext ==
    /\ ncalls < call_limit
    /\ sampler.pc # "done"
    /\ IF sampler.count = None \/ counter_at_test(sampler) < sampler.count
       THEN \E mu \in sampled_parameters(sampler.space) :
               /\ sampler' = [sampler EXCEPT !.c = counter_at_test(sampler), !.pc = "yielded",
                                             !.yielded = Append(@, mu)]
               /\ result' = Returned("iterator", "next", None, None, Ok(mu))
       ELSE /\ sampler' = [sampler EXCEPT !.c = counter_at_test(sampler), !.pc = "done"]
            /\ result' = Returned("iterator", "next", None, None, Raise("StopIteration"))
    /\ ncalls' = ncalls + 1
    /\ UNCHANGED <<x0_num_intervals, x1_num_intervals, domain, sizes, subentities_tables,
                   embeddings_tables, constructed, arithmetic, cache, ncomputed, reader_vars>>

NextSampler == SamplerNext

SpecSampler == InitSampler /\ [][NextSampler]_vars

(***************************************************************************)
(* Readers of the last call.                                               *)
(***************************************************************************)
Called(obj, op, a, b) ==
    /\ result.obj = obj
    /\ result.op = op
    /\ result.args = <<a, b>>

\* the vertex at column i, row j of the lattice
vertex_at(i, j) == j * (x0_num_intervals + 1) + i

Cells == 0 .. x0_num_intervals * x1_num_intervals - 1

(***************************************************************************)
(* C1. size(0) = n0*n1, size(1) = (n0+1)*n1 + (n1+1)*n0 and                *)
(* size(2) = (n0+1)*(n1+1) for every RectGrid; num_intervals=(2,2) gives   *)
(* size(0) = 4 and size(2) = 9.                                            *)
(***************************************************************************)
C1_ExpectedSize(codim) ==
    IF codim = 0 THEN x0_num_intervals * x1_num_intervals
    ELSE IF codim = 1
    THEN (x0_num_intervals + 1) * x1_num_intervals + (x1_num_intervals + 1) * x0_num_intervals
    ELSE (x0_num_intervals + 1) * (x1_num_intervals + 1)

C1_Sizes ==
    \A codim \in 0 .. 2 :
        Called("grid", "size", codim, None) =>
            /\ result.kind = "ok"
            /\ result.val = C1_ExpectedSize(codim)
            /\ (x0_num_intervals = 2 /\ x1_num_intervals = 2 /\ codim = 0 => result.val = 4)
            /\ (x0_num_intervals = 2 /\ x1_num_intervals = 2 /\ codim = 2 => result.val = 9)

C1_Witness ==
    /\ x0_num_intervals = 2 /\ x1_num_intervals = 3
    /\ Called("grid", "size", 1, None)
    /\ result.kind = "ok"
    /\ result.val = 17

(***************************************************************************)
(* C2. subentities(0,2)[e] of the cell e in column i, row j lists its four *)
(* corner vertices lower-left, lower-right, upper-right, upper-left, i.e.  *)
(* [v, v+1, v+n0+2, v+n0+1] with v = j*(n0+1)+i; for num_intervals=(2,2)   *)
(* row 0 is [0, 1, 4, 3].                                                  *)
(***************************************************************************)
C2_CornerVertices ==
    Called("grid", "subentities", 0, 2) =>
        /\ result.kind = "ok"
        /\ DOMAIN result.val = Cells
        /\ \A e \in Cells :
              LET v == cell_row(e) * (x0_num_intervals + 1) + cell_column(e)
              IN /\ result.val[e] = array(<<v, v + 1, v + x0_num_intervals + 2,
                                            v + x0_num_intervals + 1>>)
                 /\ result.val[e] = array(<<vertex_at(cell_column(e), cell_row(e)),
                                            vertex_at(cell_column(e) + 1, cell_row(e)),
                                            vertex_at(cell_column(e) + 1, cell_row(e) + 1),
                                            vertex_at(cell_column(e), cell_row(e) + 1)>>)
        /\ (x0_num_intervals = 2 /\ x1_num_intervals = 2 =>
                result.val[0] = array(<<0, 1, 4, 3>>))

C2_Witness ==
    /\ x0_num_intervals = 2 /\ x1_num_intervals = 2
    /\ Called("grid", "subentities", 0, 2)
    /\ result.kind = "ok"
    /\ result.val[0] = array(<<0, 1, 4, 3>>)
    /\ result.val[3] = array(<<4, 5, 8, 7>>)

(***************************************************************************)
(* C3. The order of subentities(0,1)[e] is the reference square's: the     *)
(* edge in slot s of the cell e has as its end vertices the entries        *)
(* subentities(0,2)[e, k], k in square.subentities(1,2)[s], and slot 0 is  *)
(* the bottom, 1 the right, 2 the top and 3 the left side of the cell.     *)
(***************************************************************************)
\* the two corners of the side of cell e named by slot s
C3_SideCorners(e, s) ==
    LET i == cell_column(e)
        j == cell_row(e)
    IN IF s = 0 THEN {vertex_at(i, j), vertex_at(i + 1, j)}
       ELSE IF s = 1 THEN {vertex_at(i + 1, j), vertex_at(i + 1, j + 1)}
       ELSE IF s = 2 THEN {vertex_at(i + 1, j + 1), vertex_at(i, j + 1)}
       ELSE {vertex_at(i, j + 1), vertex_at(i, j)}

C3_EdgeOrder ==
    (Called("grid", "subentities", 0, 1) \/ Called("grid", "subentities", 0, None)) =>
        /\ result.kind = "ok"
        /\ DOMAIN result.val = Cells
        /\ \A e \in Cells : \A s \in 0 .. 3 :
              /\ edge_ends(result.val[e][s]) =
                     {subentities_value(0, 2)[e][Square_subentities(1, 2).val[s][k]] : k \in 0 .. 1}
              /\ edge_ends(result.val[e][s]) = C3_SideCorners(e, s)

C3_Witness ==
    /\ x0_num_intervals = 2 /\ x1_num_intervals = 2
    /\ Called("grid", "subentities", 0, None)
    /\ result.kind = "ok"
    /\ result.val[0] = array(<<6, 1, 8, 0>>)
    /\ edge_ends(result.val[0][3]) = {0, 3}

(***************************************************************************)
(* C4. size(codim) and subentities(codim, subentity_codim) of a RectGrid   *)
(* with codim outside [0,2] or subentity_codim outside [codim,2] fail with *)
(* CodimError, and with no other error or value.                           *)
(***************************************************************************)
C4_InvalidArgs ==
    /\ result.obj = "grid"
    /\ \/ result.op = "size" /\ ~(0 <= result.args[1] /\ result.args[1] <= dim)
       \/ /\ result.op = "subentities"
          /\ \/ ~(0 <= result.args[1] /\ result.args[1] <= dim)
             \/ ~(result.args[1] <= subentity_codim_of(result.args[1], result.args[2])
                  /\ subentity_codim_of(result.args[1], result.args[2]) <= dim)

C4_RaisesCodimError == C4_InvalidArgs => result.kind = "CodimError"

(***************************************************************************)
(* C5. Every call of size, subentities, subentity_embedding or             *)
(* sub_reference_element of a reference element of dimension d with a      *)
(* codim outside [0,d] or a subentity_codim outside [codim,d] fails with   *)
(* CodimError and with no other kind of error.                             *)
(***************************************************************************)
C5_InvalidArgs ==
    /\ result.obj \in ReferenceElements
    /\ \/ /\ result.op \in {"size", "subentity_embedding", "sub_reference_element"}
          /\ ~(0 <= result.args[1] /\ result.args[1] <= ref_dim(result.obj))
       \/ /\ result.op = "subentities"
          /\ \/ ~(0 <= result.args[1] /\ result.args[1] <= ref_dim(result.obj))
             \/ ~(result.args[1] <= result.args[2] /\ result.args[2] <= ref_dim(result.obj))

C5_RaisesCodimError == C5_InvalidArgs => result.kind = "CodimError"

(***************************************************************************)
(* C6. boundary_mask(1)[e] is true iff superentities(1,0)[e] has exactly   *)
(* one valid entry; on a RectGrid these are exactly the edges on the       *)
(* perimeter of the lattice, and boundaries(1) lists exactly their         *)
(* global indices.                                                         *)
(***************************************************************************)
Edges == 0 .. sizes[1] - 1
Vertices == 0 .. sizes[2] - 1

\* the cells that list the edge g among their four edges
C6_CellsOf(g) == {p \in Cells : \E s \in 0 .. 3 : subentities_tables[0][p][s] = g}

C6_BoundaryEdges ==
    /\ Called("grid", "boundary_mask", 1, None) =>
          /\ result.kind = "ok"
          /\ DOMAIN result.val = Edges
          /\ \A e \in Edges :
                /\ result.val[e] <=>
                       Cardinality(valid_entries(superentities(1, 0).val[e])) = 1
                /\ result.val[e] <=> Cardinality(C6_CellsOf(e)) = 1
                /\ result.val[e] <=> edge_on_perimeter(e)
    /\ Called("grid", "boundaries", 1, None) =>
          /\ result.kind = "ok"
          /\ {result.val[i] : i \in DOMAIN result.val} = {e \in Edges : edge_on_perimeter(e)}
          /\ \A i \in DOMAIN result.val : \A k \in DOMAIN result.val :
                i < k => result.val[i] < result.val[k]

C6_Witness ==
    /\ x0_num_intervals = 3 /\ x1_num_intervals = 3
    /\ Called("grid", "boundary_mask", 1, None)
    /\ result.kind = "ok"
    /\ result.val[0] /\ ~result.val[1] /\ result.val[12] /\ ~result.val[15]

(***************************************************************************)
(* C7. For codim # 1, boundary_mask(codim)[e] is true iff e has a codim-1  *)
(* subentity (codim 0) or codim-1 superentity (codim > 1) that is a        *)
(* boundary entity; on a RectGrid a cell is boundary iff one of its four   *)
(* edges is a perimeter edge, a vertex iff it lies on the perimeter.       *)
(***************************************************************************)
C7_BoundaryCellsAndVertices ==
    /\ Called("grid", "boundary_mask", 0, None) =>
          /\ result.kind = "ok"
          /\ DOMAIN result.val = Cells
          /\ \A e \in Cells :
                /\ result.val[e] <=>
                       \E s \in 0 .. 3 : boundary_mask(1).val[subentities_tables[0][e][s]]
                /\ result.val[e] <=>
                       \E s \in 0 .. 3 : edge_on_perimeter(subentities_tables[0][e][s])
                /\ result.val[e] <=>
                       \/ cell_column(e) \in {0, x0_num_intervals - 1}
                       \/ cell_row(e) \in {0, x1_num_intervals - 1}
    /\ Called("grid", "boundary_mask", 2, None) =>
          /\ result.kind = "ok"
          /\ DOMAIN result.val = Vertices
          /\ \A v \in Vertices :
                /\ result.val[v] <=>
                       \E g \in Edges : v \in edge_ends(g) /\ boundary_mask(1).val[g]
                /\ result.val[v] <=> vertex_on_perimeter(v)

C7_Witness ==
    /\ x0_num_intervals = 3 /\ x1_num_intervals = 3
    /\ Called("grid", "boundary_mask", 0, None)
    /\ result.kind = "ok"
    /\ result.val[0] /\ ~result.val[4] /\ result.val[5]

(***************************************************************************)
(* C8. Every row of superentities(codim, superentity_codim) lists its      *)
(* valid entries in strictly ascending global index, followed only by      *)
(* padding equal to a sentinel that is no valid global index; all rows     *)
(* have the width of the largest number of superentities of any entity.    *)
(***************************************************************************)
\* the number of parents in the table SUB that list the child e
C8_NumParents(SUB, e) ==
    Cardinality({p \in DOMAIN SUB : \E s \in DOMAIN SUB[p] : SUB[p][s] = e})

C8_RowsOf(SE, SUB, num_parents_entities) ==
    /\ \A e \in DOMAIN SE :
          /\ DOMAIN SE[e] = 0 .. Max({C8_NumParents(SUB, x) : x \in DOMAIN SE}) - 1
          /\ \A n \in DOMAIN SE[e] :
                IF n < C8_NumParents(SUB, e)
                THEN /\ SE[e][n] \in 0 .. num_parents_entities - 1
                     /\ n > 0 => SE[e][n - 1] < SE[e][n]
                ELSE SE[e][n] = Sentinel
    /\ Sentinel \notin 0 .. num_parents_entities - 1

C8_SuperentityRows ==
    \A codim \in 0 .. dim : \A a \in (0 .. codim) \cup {None} :
        (Called("grid", "superentities", codim, a) /\ (a = None => codim > 0)) =>
            /\ result.kind = "ok"
            /\ DOMAIN result.val = 0 .. sizes[codim] - 1
            /\ C8_RowsOf(result.val,
                         subentities_value(superentity_codim_of(codim, a), codim),
                         sizes[superentity_codim_of(codim, a)])

C8_Witness ==
    /\ x0_num_intervals = 2 /\ x1_num_intervals = 2
    /\ Called("grid", "superentities", 2, 0)
    /\ result.kind = "ok"
    /\ result.val[4] = array(<<0, 1, 2, 3>>)
    /\ result.val[1] = array(<<0, 1, Sentinel, Sentinel>>)

(***************************************************************************)
(* C9. superentities and superentity_indices are the exact inverse of      *)
(* subentities: subentities(sc, c)[p, s] = e iff some column n has         *)
(* superentities(c, sc)[e, n] = p and superentity_indices(c, sc)[e, n] = s;*)
(* no pair is missing from or extra in either relation.                    *)
(***************************************************************************)
C9_Inverse(SE, SI, SUB) ==
    /\ DOMAIN SE = DOMAIN SI
    /\ \A p \in DOMAIN SUB : \A s \in DOMAIN SUB[p] :
          /\ SUB[p][s] \in DOMAIN SE
          /\ \E n \in DOMAIN SE[SUB[p][s]] :
                SE[SUB[p][s]][n] = p /\ SI[SUB[p][s]][n] = s
    /\ \A e \in DOMAIN SE :
          /\ DOMAIN SE[e] = DOMAIN SI[e]
          /\ \A n \in DOMAIN SE[e] :
                SE[e][n] # Sentinel =>
                    /\ SE[e][n] \in DOMAIN SUB
                    /\ SI[e][n] \in DOMAIN SUB[SE[e][n]]
                    /\ SUB[SE[e][n]][SI[e][n]] = e
                    /\ \A m \in DOMAIN SE[e] :
                          m # n => <<SE[e][m], SI[e][m]>> # <<SE[e][n], SI[e][n]>>

C9_ExactInverse ==
    \A codim \in 0 .. dim : \A a \in (0 .. codim) \cup {None} :
        (a = None => codim > 0) =>
            /\ Called("grid", "superentities", codim, a) =>
                  /\ result.kind = "ok"
                  /\ C9_Inverse(result.val, superentity_indices(codim, a).val,
                                subentities_value(superentity_codim_of(codim, a), codim))
            /\ Called("grid", "superentity_indices", codim, a) =>
                  /\ result.kind = "ok"
                  /\ C9_Inverse(superentities(codim, a).val, result.val,
                                subentities_value(superentity_codim_of(codim, a), codim))

C9_Witness ==
    /\ x0_num_intervals = 2 /\ x1_num_intervals = 2
    /\ Called("grid", "superentity_indices", 1, None)
    /\ result.kind = "ok"
    /\ result.val[0] = array(<<3, Sentinel>>)
    /\ result.val[1] = array(<<1, 3>>)
    /\ superentities(1, 0).val[1] = array(<<0, 1>>)

(***************************************************************************)
(* C10. For codim > 0 the row subentities(codim, subentity_codim)[e] holds *)
(* each subentity of e exactly once, in the order of the reference         *)
(* element's local subentity table for the slot of e in its parent of      *)
(* lowest global index: for an edge e of a RectGrid the two end vertices   *)
(* in the order square.subentities(1,2)[slot of e in its lowest cell],     *)
(* read through that cell's subentities(0,2) row.                          *)
(***************************************************************************)
C10_LowestCell(e) == Min(C6_CellsOf(e))
C10_SlotIn(e, p) == CHOOSE s \in 0 .. 3 : subentities_tables[0][p][s] = e

C10_EdgeVertexOrder ==
    /\ (Called("grid", "subentities", 1, 2) \/ Called("grid", "subentities", 1, None)) =>
          /\ result.kind = "ok"
          /\ DOMAIN result.val = Edges
          /\ \A e \in Edges :
                /\ result.val[e] =
                       [k \in 0 .. 1 |->
                           subentities_tables[1][C10_LowestCell(e)]
                               [Square_subentities(1, 2).val[C10_SlotIn(e, C10_LowestCell(e))][k]]]
                /\ {result.val[e][k] : k \in DOMAIN result.val[e]} = edge_ends(e)
                /\ result.val[e][0] # result.val[e][1]
    /\ \A codim \in 1 .. dim :
          Called("grid", "subentities", codim, codim) =>
              /\ result.kind = "ok"
              /\ result.val = [e \in 0 .. sizes[codim] - 1 |-> array(<<e>>)]

C10_Witness ==
    /\ x0_num_intervals = 2 /\ x1_num_intervals = 2
    /\ Called("grid", "subentities", 1, 2)
    /\ result.kind = "ok"
    /\ result.val[0] = array(<<3, 0>>)
    /\ result.val[1] = array(<<1, 4>>)
    /\ result.val[8] = array(<<4, 3>>)

(***************************************************************************)
(* C11. For explicitly given valid (codim, neighbour_codim,                *)
(* intersection_codim), the valid entries of neighbours(...)[e] are        *)
(* exactly, without duplicates, the codim-neighbour_codim entities that    *)
(* share at least one codim-intersection_codim subentity with e, and e     *)
(* itself never appears in its own row when codim = neighbour_codim.       *)
(***************************************************************************)
\* the rows SUBE[e] and SUBN[n] have an entry in common
C11_Share(SUBE, SUBN, e, n) ==
    \E k \in DOMAIN SUBE[e], m \in DOMAIN SUBN[n] : SUBE[e][k] = SUBN[n][m]

C11_RowsExact(N, SUBE, SUBN, same_codim) ==
    \A e \in DOMAIN SUBE :
        /\ {N[e][c] : c \in valid_entries(N[e])}
               = {n \in DOMAIN SUBN : C11_Share(SUBE, SUBN, e, n) /\ ~(same_codim /\ n = e)}
        /\ \A a, b \in valid_entries(N[e]) : a # b => N[e][a] # N[e][b]

C11_Neighbours ==
    \A codim \in 0 .. dim, nc \in 0 .. dim, ic \in 0 .. dim :
        (Called("grid", "neighbours", codim, <<nc, ic>>) /\ codim <= ic /\ nc <= ic) =>
            /\ result.kind = "ok"
            /\ DOMAIN result.val = 0 .. sizes[codim] - 1
            /\ C11_RowsExact(result.val, subentities_value(codim, ic),
                             subentities_value(nc, ic), codim = nc)

\* on the 3 x 1 grid the cells that share an edge with cell 0 are {1}, with
\* cell 1 are {0, 2}: the row of cell 0 is padded
C11_Witness ==
    /\ Called("grid", "neighbours", 0, <<0, 1>>)
    /\ x0_num_intervals = 3 /\ x1_num_intervals = 1
    /\ result.kind = "ok"
    /\ {result.val[0][c] : c \in valid_entries(result.val[0])} = {1}
    /\ {result.val[1][c] : c \in valid_entries(result.val[1])} = {0, 2}
    /\ \E c \in DOMAIN result.val[0] : result.val[0][c] = Sentinel

(***************************************************************************)
(* C12. When intersection_codim is omitted, neighbours(codim,              *)
(* neighbour_codim) behaves exactly like neighbours(codim, neighbour_codim,*)
(* codim) if codim = neighbour_codim and like neighbours(codim,            *)
(* neighbour_codim, min(codim, neighbour_codim)) otherwise, and for every  *)
(* valid (codim, neighbour_codim) pair this default is a legal             *)
(* intersection codim for both the subentities(codim, intersection_codim)  *)
(* and the superentities(intersection_codim, neighbour_codim) lookups it   *)
(* is computed from.                                                       *)
(***************************************************************************)
C12_Default(codim, nc) == IF codim = nc THEN codim ELSE Min({codim, nc})

C12_DefaultIntersection ==
    \A codim \in 0 .. dim, nc \in 0 .. dim :
        Called("grid", "neighbours", codim, <<nc, None>>) =>
            /\ result.kind = neighbours(codim, nc, C12_Default(codim, nc)).kind
            /\ result.val = neighbours(codim, nc, C12_Default(codim, nc)).val
            /\ RectGrid_subentities(codim, C12_Default(codim, nc)).kind = "ok"
            /\ superentities(C12_Default(codim, nc), nc).kind = "ok"

(***************************************************************************)
(* C13. For any sequence of derived-quantity accessor calls on one grid,   *)
(* each distinct (operation, argument tuple) key is computed at most once  *)
(* during the grid's lifetime, and every later call with the same key      *)
(* returns a result identical to the one returned by the first call.       *)
(***************************************************************************)
C13_ComputedOnce ==
    /\ \A k \in DOMAIN ncomputed : ncomputed[k] <= 1
    /\ \A k \in DOMAIN cache : k \in DOMAIN ncomputed /\ ncomputed[k] = 1
    /\ \A o1 \in observed, o2 \in observed : o1[1] = o2[1] => o1[2] = o2[2]
    /\ \A k \in DerivedKeys :
           (Called("grid", k[1], k[2], k[3]) /\ ncalls > 0) =>
               <<k, result.val>> \in observed /\ k \in DOMAIN cache

\* boundaries(1) was called twice: the second call is a hit, the key and the
\* keys of the accessors below it have been computed once
C13_Witness ==
    /\ ncalls = 2
    /\ Called("grid", "boundaries", 1, None)
    /\ Cardinality(observed) = 1
    /\ ncomputed[cache_key("boundaries", 1, None)] = 1
    /\ ncomputed[cache_key("superentities", 1, 0)] = 1
    /\ result.val = array(<<0, 2, 3, 5, 6, 7, 10, 11>>)

C15_CacheGrows ==
    \A k \in DOMAIN cache : k \in DOMAIN cache' /\ cache'[k] = cache[k]

C15_Immutable ==
    /\ [](/\ sizes = init_sizes(2, 2)
          /\ subentities_tables = init_subentities(2, 2)
          /\ embeddings_tables = init_embeddings(2, 2, default_domain))
    /\ [][grid_vars' = grid_vars /\ C15_CacheGrows]_vars

\* after boundaries(1), embeddings(1) has added its results to the cache
C15_Witness ==
    /\ ncalls = 2
    /\ result.op = "embeddings" /\ result.args = <<1, None>> /\ result.kind = "ok"
    /\ cache_key("boundaries", 1, None) \in DOMAIN cache
    /\ cache_key("embeddings", 1, None) \in DOMAIN cache
    /\ sizes = array(<<4, 12, 9>>)

(***************************************************************************)
(* C16. unit_outer_normals()[e, s] is (0,-1), (1,0), (0,1), (-1,0) for the *)
(* slots s = 0, 1, 2, 3 of every cell e, and it is the outward unit normal *)
(* of the side subentities(0, 1)[e, s]: of length 1, perpendicular to the  *)
(* edge and pointing from the cell's centre to the edge. For               *)
(* num_intervals=(2,2) the normal of cell 0's left edge (slot 3, edge 0)   *)
(* is [-1, 0].                                                             *)
(***************************************************************************)
C16_Expected == array(<<array(<<0, -1>>), array(<<1, 0>>), array(<<0, 1>>), array(<<-1, 0>>)>>)

\* four times the way from the centre of the cell with corners c to the
\* middle of the edge from p0 to p1
C16_FromCentre(p0, p1, c) ==
    vecsub(vecadd(vecadd(p0, p1), vecadd(p0, p1)),
           vecadd(vecadd(vertex_position(c[0]), vertex_position(c[1])),
                  vecadd(vertex_position(c[2]), vertex_position(c[3]))))

C16_Outward(n, p0, p1, c) ==
    /\ dot_terms(n, n, 2) = float(1)
    /\ dot_terms(n, vecsub(p1, p0), 2) = float(0)
    /\ dot_terms(n, C16_FromCentre(p0, p1, c), 2)[1] > 0

C16_UnitOuterNormals ==
    (Called("grid", "unit_outer_normals", None, None) /\ result.kind = "ok") =>
        \A e \in Cells, s \in 0 .. 3 :
            /\ result.val[e][s] = floats1(C16_Expected[s])
            /\ C16_Outward(result.val[e][s],
                           vertex_position(Min(edge_ends(subentities_tables[0][e][s]))),
                           vertex_position(Max(edge_ends(subentities_tables[0][e][s]))),
                           subentities_tables[1][e])

C16_Witness ==
    /\ Called("grid", "unit_outer_normals", None, None)
    /\ x0_num_intervals = 2 /\ x1_num_intervals = 2
    /\ domain = <<<<-1, 2>>, <<1, 3>>>>
    /\ subentities_tables[0][0][3] = 0
    /\ result.val[0][3] = array(<<float(-1), float(0)>>)

(***************************************************************************)
(* C17. For every edge e of a RectGrid, with p its parent cell of lowest   *)
(* global index and s the slot of e in p, embeddings(1)[e] is the          *)
(* composition of p's embedding (A_p, B_p) with the entry s of the         *)
(* reference square's subentity_embedding(1): linear part A_p . A_s and    *)
(* translation A_p . B_s + B_p. It agrees with subentities(1, 2)[e]: the   *)
(* points 0 and 1 of the reference line go to the positions of the         *)
(* vertices subentities(1, 2)[e][0] and subentities(1, 2)[e][1].           *)
(***************************************************************************)
C17_Parent(e) == Min({p \in Cells : \E s \in 0 .. 3 : subentities_tables[0][p][s] = e})
C17_Slot(e, p) == CHOOSE s \in 0 .. 3 : subentities_tables[0][p][s] = e

C17_Composition(A, B, Ap, Bp, As, Bs) ==
    /\ A = matmul(Ap, floats2(As))
    /\ B = vecadd(matvec(Ap, floats1(Bs)), Bp)

\* the image A x + B of the point x of the reference line
C17_Image(A, B, x) == vecadd(matvec(A, array(<<float(x)>>)), B)

C17_EdgeEmbeddings ==
    (Called("grid", "embeddings", 1, None) /\ result.kind = "ok") =>
        /\ DOMAIN result.val[1] = Edges /\ DOMAIN result.val[2] = Edges
        /\ \A e \in Edges :
              /\ C17_Composition(result.val[1][e], result.val[2][e],
                                 embeddings_tables[1][C17_Parent(e)],
                                 embeddings_tables[2][C17_Parent(e)],
                                 Square_subentity_embedding(1).val[1][C17_Slot(e, C17_Parent(e))],
                                 Square_subentity_embedding(1).val[2][C17_Slot(e, C17_Parent(e))])
              /\ \A k \in 0 .. 1 :
                    C17_Image(result.val[1][e], result.val[2][e], k)
                        = vertex_position(subentities_value(1, 2)[e][k])

\* 2 x 2 cells of size 1 x 1/2 from (-1, 2) on: edge 0, the left side of cell
\* 0, runs from vertex 3 at (-1, 5/2) down to vertex 0 at (-1, 2)
C17_Witness ==
    /\ Called("grid", "embeddings", 1, None)
    /\ x0_num_intervals = 2 /\ x1_num_intervals = 2
    /\ domain = <<<<-1, 2>>, <<1, 3>>>>
    /\ subentities_value(1, 2)[0] = array(<<3, 0>>)
    /\ result.val[1][0] = array(<<array(<<float(0)>>), array(<<Rat(-1, 2)>>)>>)
    /\ result.val[2][0] = array(<<float(-1), Rat(5, 2)>>)

(***************************************************************************)
(* C18. For every RectGrid with num_intervals = (n0, n1) over a domain of  *)
(* outer size W x H, each cell's embedding has the linear part             *)
(* diag(W/n0, H/n1) and the translation of the cell's lower-left corner;   *)
(* volumes(0)[e] equals (W/n0)*(H/n1) for every cell and the sum of        *)
(* volumes(0) over all n0*n1 cells equals W*H. As stated, with exact       *)
(* equalities of the floats: C18_ExactVolumes. As it holds of the binary64 *)
(* values: the embeddings are exactly these floats, and the two volume     *)
(* equalities hold up to rounding, within a relative error of 4 * 2^-53    *)
(* for each cell and of (n0*n1 + 4) * 2^-53 for the sum: C18_Volumes.      *)
(***************************************************************************)
C18_Width == domain[2][1] - domain[1][1]
C18_Height == domain[2][2] - domain[1][2]

\* diag(dx, dy)
C18_Linear(dx, dy) == array(<<array(<<dx, float(0)>>), array(<<float(0), dy>>)>>)

\* the lower-left corner of the cell e, which lies in the column
\* e % n0 and in the row e // n0
C18_Corner(e, dx, dy) ==
    array(<<fadd(fmul(float(e % x0_num_intervals), dx), float(domain[1][1])),
            fadd(fmul(float(e \div x0_num_intervals), dy), float(domain[1][2]))>>)

C18_Embeddings(dx, dy) ==
    Called("grid", "embeddings", 0, None) =>
        /\ result.kind = "ok"
        /\ \A e \in Cells :
            /\ result.val[1][e] = C18_Linear(dx, dy)
            /\ result.val[2][e] = C18_Corner(e, dx, dy)

\* V[0] + ... + V[n - 1], summed from the left
RECURSIVE C18_Sum(_, _)
C18_Sum(V, n) == IF n = 0 THEN float(0) ELSE fadd(C18_Sum(V, n - 1), V[n - 1])

C18_VolumesEqual(dx, dy) ==
    Called("grid", "volumes", 0, None) =>
        /\ result.kind = "ok"
        /\ \A e \in Cells : result.val[e] = fmul(dx, dy)
        /\ C18_Sum(result.val, x0_num_intervals * x1_num_intervals)
               = fmul(float(C18_Width), float(C18_Height))

C18_ExactVolumes ==
    constructed # <<>> =>
        \A dx \in {fdiv(float(C18_Width), float(x0_num_intervals))},
           dy \in {fdiv(float(C18_Height), float(x1_num_intervals))} :
            C18_Embeddings(dx, dy) /\ C18_VolumesEqual(dx, dy)

\* |X - Y| * 2^53 <= k * Y for two natural numbers
C18_BigWithin(X, Y, k) ==
    BigCmp(BigShl(IF BigCmp(X, Y) >= 0 THEN BigSub(X, Y) ELSE BigSub(Y, X), Precision),
           BigMulDigit(Y, k)) <= 0

\* |x - y| <= k * 2^-53 * y for two positive binary64 values
C18_Within(x, y, k) ==
    /\ x[1] = 1 /\ y[1] = 1
    /\ IF x[3] <= y[3]
       THEN C18_BigWithin(x[2], BigShl(y[2], y[3] - x[3]), k)
       ELSE C18_BigWithin(BigShl(x[2], x[3] - y[3]), y[2], k)

C18_VolumesWithin(dx, dy) ==
    Called("grid", "volumes", 0, None) =>
        /\ result.kind = "ok"
        /\ \A e \in Cells : C18_Within(result.val[e], fmul(dx, dy), 4)
        /\ C18_Within(C18_Sum(result.val, x0_num_intervals * x1_num_intervals),
                      fmul(float(C18_Width), float(C18_Height)),
                      x0_num_intervals * x1_num_intervals + 4)

C18_Volumes ==
    constructed # <<>> =>
        \A dx \in {fdiv(float(C18_Width), float(x0_num_intervals))},
           dy \in {fdiv(float(C18_Height), float(x1_num_intervals))} :
            C18_Embeddings(dx, dy) /\ C18_VolumesWithin(dx, dy)

\* the 3 x 5 grid over the unit square: sqrt((dx*dx) * (dy*dy)) is
\* 0x1.1111111111112p-4, one unit in the last place above dx*dy
C18_Witness ==
    /\ Called("grid", "volumes", 0, None)
    /\ x0_num_intervals = 3 /\ x1_num_intervals = 5
    /\ domain = <<<<0, 0>>, <<1, 1>>>>
    /\ embeddings_tables[1][14] =
           C18_Linear(<<1, <<21845, 10922, 21845, 170>>, -54>>,
                      <<1, <<6554, 13107, 26214, 204>>, -55>>)
    /\ embeddings_tables[2][14] =
           array(<<<<1, <<21845, 10922, 21845, 170>>, -53>>,
                   <<1, <<6554, 13107, 26214, 204>>, -53>>>>)
    /\ result.val[14] = <<1, <<4370, 8738, 17476, 136>>, -56>>
    /\ f64_mul(<<1, <<21845, 10922, 21845, 170>>, -54>>,
               <<1, <<6554, 13107, 26214, 204>>, -55>>)
           = <<1, <<4369, 8738, 17476, 136>>, -56>>

(***************************************************************************)
(* C19. For every codim, the global indices in subentities(0, codim) are   *)
(* exactly the dense range 0 .. size(codim) - 1: every entry is in the     *)
(* range and every index of the range occurs in some row, so every edge    *)
(* below size(1) and every vertex below size(2) is a subentity of a cell.  *)
(***************************************************************************)
C19_DenseIndices ==
    \A codim \in 0 .. dim :
        (\/ Called("grid", "subentities", 0, codim)
         \/ (codim = 1 /\ Called("grid", "subentities", 0, None))) =>
            /\ result.kind = "ok"
            /\ {result.val[e][k] : e \in DOMAIN result.val,
                                   k \in 0 .. (IF codim = 0 THEN 0 ELSE 3)}
                   = 0 .. RectGrid_size(codim).val - 1

\* 3 x 2 cells: the 17 edges 0 .. 16 all occur in subentities(0, 1)
C19_Witness ==
    /\ Called("grid", "subentities", 0, 1)
    /\ x0_num_intervals = 3 /\ x1_num_intervals = 2
    /\ RectGrid_size(1).val = 17
    /\ \A g \in 0 .. 16 : \E e \in 0 .. 5, k \in 0 .. 3 : result.val[e][k] = g

(***************************************************************************)
(* C20. discretize_domain_default selects the grid class by the documented *)
(* table. As stated: a RectDomain yields a TriaGrid with grid_type None    *)
(* and a RectGrid with grid_type RectGrid, a LineDomain yields an OnedGrid *)
(* with grid_type None or OnedGrid, and every other combination of domain  *)
(* and grid_type raises NotImplementedError without constructing a grid.   *)
(***************************************************************************)
C20_Yields(cls) ==
    /\ result.kind = "ok"
    /\ result.val[1].cls = cls
    /\ constructed # <<>> /\ constructed[Len(constructed)] = result.val[1]

C20_SelectsAsStated ==
    [][result'.op = "discretize_domain_default" =>
          IF result'.args[1].cls = "RectDomain" /\ result'.args[2][2] = "None"
          THEN C20_Yields("TriaGrid")'
          ELSE IF result'.args[1].cls = "RectDomain" /\ result'.args[2][2] = "RectGrid"
          THEN C20_Yields("RectGrid")'
          ELSE IF result'.args[1].cls = "LineDomain" /\ result'.args[2][2] \in {"None", "OnedGrid"}
          THEN C20_Yields("OnedGrid")'
          ELSE result'.kind = "NotImplementedError" /\ constructed' = constructed]_vars

(***************************************************************************)
(* C20, amended: the table also has TriaGrid for a RectDomain. A           *)
(* RectDomain yields a TriaGrid with grid_type None or TriaGrid and a      *)
(* RectGrid with grid_type RectGrid; a LineDomain yields an OnedGrid with  *)
(* grid_type None or OnedGrid; every other combination raises              *)
(* NotImplementedError and constructs no grid. A call that returns         *)
(* constructs exactly one grid.                                            *)
(***************************************************************************)
C20_Selects ==
    [][result'.op = "discretize_domain_default" =>
          IF result'.args[1].cls = "RectDomain"
                 /\ result'.args[2][2] \in {"None", "TriaGrid"}
          THEN C20_Yields("TriaGrid")' /\ Len(constructed') = Len(constructed) + 1
          ELSE IF result'.args[1].cls = "RectDomain" /\ result'.args[2][2] = "RectGrid"
          THEN C20_Yields("RectGrid")' /\ Len(constructed') = Len(constructed) + 1
          ELSE IF result'.args[1].cls = "LineDomain"
                      /\ result'.args[2][2] \in {"None", "OnedGrid"}
          THEN C20_Yields("OnedGrid")' /\ Len(constructed') = Len(constructed) + 1
          ELSE result'.kind = "NotImplementedError" /\ UNCHANGED grid_vars]_vars

\* a RectDomain, 1 wide and 2 high, with the default grid type and diameter
\* 1/2: a TriaGrid of 3 x 6 intervals
C20_Witness ==
    /\ result.op = "discretize_domain_default"
    /\ result.args[1].cls = "RectDomain" /\ result.args[2] = <<Rat(1, 2), "None">>
    /\ result.args[1].width = 1 /\ result.args[1].height = 2
    /\ constructed = <<Grid("TriaGrid", <<<<0, 0>>, <<1, 2>>>>, <<3, 6>>)>>

(***************************************************************************)
(* C21. A RectGrid is conformal: for every edge g that occurs in the       *)
(* subentities(0,1) rows of two cells p (slot s) and q (slot t), the       *)
(* vertices {subentities(0,2)[p,k] : k in square.subentities(1,2)[s]} are  *)
(* the vertices {subentities(0,2)[q,k] : k in square.subentities(1,2)[t]}, *)
(* and every edge occurs in the rows of at least one and at most two       *)
(* cells.                                                                  *)
(***************************************************************************)
\* the global vertices of the side in slot s of the cell p, V = subentities(0, 2)
C21_SideVertices(V, p, s) ==
    {V[p][Square_subentities(1, 2).val[s][k]] : k \in 0 .. 1}

\* the cells with the edge g in their row of E = subentities(0, 1)
C21_CellsWith(E, g) == {p \in DOMAIN E : \E s \in 0 .. 3 : E[p][s] = g}

C21_ConformalTables(E, V) ==
    \A g \in Edges :
        /\ Cardinality(C21_CellsWith(E, g)) \in 1 .. 2
        /\ \A p \in DOMAIN E, q \in DOMAIN E, s \in 0 .. 3, t \in 0 .. 3 :
              (E[p][s] = g /\ E[q][t] = g) =>
                  C21_SideVertices(V, p, s) = C21_SideVertices(V, q, t)

C21_Conformal ==
    /\ (Called("grid", "subentities", 0, 1) \/ Called("grid", "subentities", 0, None)) =>
          /\ result.kind = "ok"
          /\ RectGrid_subentities(0, 2).kind = "ok"
          /\ DOMAIN result.val = Cells
          /\ C21_ConformalTables(result.val, RectGrid_subentities(0, 2).val)
    /\ Called("grid", "subentities", 0, 2) =>
          /\ result.kind = "ok"
          /\ RectGrid_subentities(0, 1).kind = "ok"
          /\ DOMAIN result.val = Cells
          /\ C21_ConformalTables(RectGrid_subentities(0, 1).val, result.val)

\* 2 x 2 cells: the edge 1 is the right side (slot 1) of the cell 0 and the
\* left side (slot 3) of the cell 1, and both read it as the vertices 1 and 4;
\* the edge 0 on the boundary belongs to the cell 0 alone
C21_Witness ==
    /\ Called("grid", "subentities", 0, 1)
    /\ x0_num_intervals = 2 /\ x1_num_intervals = 2
    /\ result.val[0][1] = 1 /\ result.val[1][3] = 1
    /\ C21_CellsWith(result.val, 1) = {0, 1}
    /\ C21_SideVertices(RectGrid_subentities(0, 2).val, 0, 1) = {1, 4}
    /\ C21_SideVertices(RectGrid_subentities(0, 2).val, 1, 3) = {1, 4}
    /\ C21_CellsWith(result.val, 0) = {0}

(***************************************************************************)
(* C22. CubicParameterSpace.sample_randomly(count) with an integer         *)
(* count >= 0 yields exactly count parameters and then terminates, every   *)
(* yielded parameter satisfying contains(mu); with count None the iterator *)
(* never terminates on its own and yields a parameter at every step.       *)
(***************************************************************************)
\* an integer count: never more than count parameters, and exactly count of
\* them once the iterator has ended; the next() after the last one ends it
C22_Counted ==
    sampler.count # None =>
        /\ Len(sampler.yielded) <= sampler.count
        /\ sampler.pc = "done" => Len(sampler.yielded) = sampler.count
        /\ (sampler.pc # "done" /\ Len(sampler.yielded) = sampler.count /\ ncalls > 0) =>
               sampler.pc = "yielded" /\ sampler.c = sampler.count - 1

\* count None: the iterator has not ended, and every next() so far yielded
C22_Endless ==
    sampler.count = None =>
        /\ sampler.pc # "done"
        /\ Len(sampler.yielded) = ncalls
        /\ result.kind = "ok"

C22_AllContained ==
    \A i \in DOMAIN sampler.yielded : contains(sampler.space, sampler.yielded[i])

C22_Sampling == C22_Counted /\ C22_Endless /\ C22_AllContained

====
